---- MODULE Spec2Model ----
(***************************************************************************)
(* GitHub Hyper: the two content scripts (absolute-time labels and IDE     *)
(* deep-link buttons) running against one live document.                   *)
(*                                                                         *)
(* The document is a tree of nodes with ordered children.  Strings (text   *)
(* content, attribute values, the location path) are sequences of          *)
(* one-character strings so that trimming, matching, parsing and encoding  *)
(* are computed character by character as the JavaScript does.             *)
(***************************************************************************)
EXTENDS Integers, Sequences, FiniteSets, TLC

\* ------------------------------------------------------------- bounds
MaxLabels == 4
MaxButtons == 5
MaxHostOps == 2
MaxAttrLen == 3
MaxNameLen == 2
MaxPathLen == 5

\* ------------------------------------------------------------- strings
Range(s) == {s[i] : i \in 1..Len(s)}

Whitespace == {" ", "\t", "\n"}

Digits == <<"0", "1", "2", "3", "4", "5", "6", "7", "8", "9">>

IsDigit(c) == c \in Range(Digits)

DigitVal(c) == (CHOOSE i \in 1..10 : Digits[i] = c) - 1

\* String.prototype.trim
RECURSIVE TrimLeft(_)
TrimLeft(s) == IF s # <<>> /\ Head(s) \in Whitespace THEN TrimLeft(Tail(s)) ELSE s

RECURSIVE TrimRight(_)
TrimRight(s) ==
    IF s # <<>> /\ s[Len(s)] \in Whitespace THEN TrimRight(SubSeq(s, 1, Len(s) - 1)) ELSE s

Trim(s) == TrimRight(TrimLeft(s))

\* String.prototype.includes
Includes(s, sub) ==
    \E i \in 1..(Len(s) - Len(sub) + 1) : SubSeq(s, i, i + Len(sub) - 1) = sub

\* Number -> decimal string, as template-literal interpolation does
RECURSIVE NatStr(_)
NatStr(n) == IF n < 10 THEN <<Digits[n + 1]>> ELSE NatStr(n \div 10) \o <<Digits[(n % 10) + 1]>>

\* ------------------------------------------------------------- the document
Null == "null"

\* The nodes of the host page.  w1..x1, t4, d1.., d3.. and w2 (holding d4,
\* d7, d8 and d9, the containers that are no file-link blocks) are in the page
\* from the start; t2, f1 (holding t3), d0 (holding d2) and g1 (holding d5,
\* d6) are fragments the host attaches and detaches while the page lives; tx
\* is the text node of a4 and ty the one that replaces it.
HostTag ==
    [doc |-> "#document", html |-> "HTML", body |-> "BODY",
     w1 |-> "DIV", p1 |-> "DIV", t1 |-> "RELATIVE-TIME", t4 |-> "RELATIVE-TIME",
     x1 |-> "DIV",
     t2 |-> "RELATIVE-TIME",
     f1 |-> "DIV", t3 |-> "RELATIVE-TIME",
     d1 |-> "DETAILS-COLLAPSIBLE", s1 |-> "SUMMARY", a1 |-> "A", n1 |-> "SPAN",
     td1 |-> "TD",
     d3 |-> "DETAILS-COLLAPSIBLE", s3 |-> "SUMMARY", a4 |-> "A",
     d0 |-> "DETAILS-COLLAPSIBLE", d2 |-> "DETAILS-COLLAPSIBLE", s2 |-> "SUMMARY",
     a2 |-> "A", a3 |-> "A", td2 |-> "TD",
     g1 |-> "DIV", d5 |-> "DETAILS-COLLAPSIBLE", s5 |-> "SUMMARY", a5 |-> "A",
     d6 |-> "DETAILS-COLLAPSIBLE", s6 |-> "SUMMARY", a6 |-> "A",
     w2 |-> "DIV",
     d7 |-> "DETAILS-COLLAPSIBLE", a7 |-> "A",
     d8 |-> "DETAILS-COLLAPSIBLE", s8 |-> "SUMMARY", a8 |-> "A", a9 |-> "A",
     d9 |-> "DETAILS-COLLAPSIBLE", s9 |-> "SUMMARY", a10 |-> "A",
     d4 |-> "DETAILS-COLLAPSIBLE", s4 |-> "SUMMARY", a11 |-> "A",
     tx |-> "#text", ty |-> "#text"]

HostNodes == DOMAIN HostTag

LabelIds == {"L" \o ToString(i) : i \in 1..MaxLabels}

ButtonIds == {"B" \o ToString(i) : i \in 1..MaxButtons}

Nodes == HostNodes \cup LabelIds \cup ButtonIds

LabelId(i) == "L" \o ToString(i)

ButtonId(i) == "B" \o ToString(i)

\* Element.tagName (upper case in an HTML document)
tagName(n) ==
    IF n \in LabelIds THEN "SPAN" ELSE IF n \in ButtonIds THEN "BUTTON" ELSE HostTag[n]

\* node.nodeType === Node.ELEMENT_NODE
IsElement(n) == tagName(n) \notin {"#document", "#text"}

\* The tree the page starts with.
InitKids ==
    [n \in Nodes |->
        CASE n = "doc" -> <<"html">>
          [] n = "html" -> <<"body">>
          [] n = "body" -> <<"w1", "d3", "d1", "w2">>
          [] n = "w1" -> <<"p1", "x1">>
          [] n = "p1" -> <<"t1", "t4">>
          [] n = "f1" -> <<"t3">>
          [] n = "d1" -> <<"s1", "td1">>
          [] n = "s1" -> <<"a1", "n1">>
          [] n = "d3" -> <<"s3">>
          [] n = "s3" -> <<"a4">>
          [] n = "a4" -> <<"tx">>
          [] n = "d0" -> <<"d2">>
          [] n = "d2" -> <<"s2", "td2">>
          [] n = "s2" -> <<"a2", "a3">>
          [] n = "g1" -> <<"d5", "d6">>
          [] n = "d5" -> <<"s5">>
          [] n = "s5" -> <<"a5">>
          [] n = "d6" -> <<"s6">>
          [] n = "s6" -> <<"a6">>
          [] n = "w2" -> <<"d7", "d8", "d9", "d4">>
          [] n = "d7" -> <<"a7">>
          [] n = "d8" -> <<"s8">>
          [] n = "s8" -> <<"a8", "a9">>
          [] n = "d9" -> <<"s9">>
          [] n = "s9" -> <<"a10">>
          [] n = "d4" -> <<"s4">>
          [] n = "s4" -> <<"a11">>
          [] OTHER -> <<>>]

\* Fragments the host moves, and where it may attach each (appended last).
Slots ==
    [t2 |-> {"body", "html", "f1"}, f1 |-> {"body"}, d0 |-> {"body"}, g1 |-> {"body"}]

Movable == DOMAIN Slots

\* node.parentNode
parentNode(K, n) ==
    IF \E p \in Nodes : n \in Range(K[p])
    THEN CHOOSE p \in Nodes : n \in Range(K[p])
    ELSE Null

IndexOf(s, x) == CHOOSE i \in 1..Len(s) : s[i] = x

\* node.nextSibling
nextSibling(K, n) ==
    LET p == parentNode(K, n) IN
    IF p = Null THEN Null
    ELSE LET i == IndexOf(K[p], n) IN
         IF i < Len(K[p]) THEN K[p][i + 1] ELSE Null

\* All descendants of n in document order (n itself excluded).
RECURSIVE DescList(_, _)
DescList(K, s) ==
    IF s = <<>> THEN <<>>
    ELSE <<Head(s)>> \o DescList(K, K[Head(s)]) \o DescList(K, Tail(s))

Descendants(K, n) == DescList(K, K[n])

\* n is body or a descendant of body: the subtree the observers watch.
InBody(K, n) == n = "body" \/ n \in Range(Descendants(K, "body"))

\* parent.insertBefore(node, ref) for a newly created node; ref = null appends.
insertBefore(K, p, node, ref) ==
    IF ref = Null THEN [K EXCEPT ![p] = Append(@, node)]
    ELSE LET i == IndexOf(K[p], ref) IN
         [K EXCEPT ![p] = SubSeq(@, 1, i - 1) \o <<node>> \o SubSeq(@, i, Len(@))]

\* A Document holds at most one element child: inserting an element into a
\* document that already has its root element raises HierarchyRequestError.
InsertThrows(K, p) ==
    tagName(p) = "#document" /\ \E i \in 1..Len(K[p]) : IsElement(K[p][i])


\* ------------------------------------------------------------- attributes
\* The datetime attribute of each relative-time element (<<>>: absent/empty).
DatetimeAttr ==
    [t1 |-> <<"2", "0", "2", "4", "-", "0", "3", "-", "1", "5", "T", "1", "0", ":", "3", "0", ":", "4", "5", "Z">>,
     t2 |-> <<"2", "0", "2", "4", "-", "0", "1", "-", "0", "5", "T", "0", "8", ":", "0", "5", ":", "0", "3", "Z">>,
     t3 |-> <<"s", "o", "o", "n">>,
     t4 |-> <<>>]

\* element.getAttribute('datetime')
getDatetime(n) == IF n \in DOMAIN DatetimeAttr THEN DatetimeAttr[n] ELSE <<>>

\* The href attribute of each anchor (<<>>: no href).
HrefAttr ==
    [a1 |-> <<"/", "o", "/", "r", "/", "p", "u", "l", "l", "/", "1", "/", "f", "i", "l", "e", "s", "/", "a", "b">>,
     a2 |-> <<"/", "o", "/", "r", "/", "b", "l", "o", "b", "/", "m", "/", "f">>,
     a3 |-> <<"/", "o", "/", "r", "/", "b", "l", "o", "b", "/", "m", "/", "g">>,
     a4 |-> <<"/", "o", "/", "r", "/", "f", "i", "l", "e", "s", "/", "x">>,
     a5 |-> <<"/", "o", "/", "r", "/", "f", "i", "l", "e", "s", "/", "y">>,
     a6 |-> <<"/", "o", "/", "r", "/", "f", "i", "l", "e", "s", "/", "z">>,
     a7 |-> <<"/", "o", "/", "r", "/", "f", "i", "l", "e", "s", "/", "u">>,
     a8 |-> <<>>,
     a9 |-> <<"/", "o", "/", "r", "/", "b", "l", "o", "b", "/", "m", "/", "v">>,
     a10 |-> <<"/", "o", "/", "r", "/", "f", "i", "l", "e", "s", "/", "w">>,
     a11 |-> <<"/", "o", "/", "r", "/", "t", "r", "e", "e", "/", "m">>]

Anchors == DOMAIN HrefAttr

\* Elements whose class list holds text-mono.
TextMono == {"a1", "a2", "a3", "a4", "a5", "a6", "a7", "a8", "a9", "a11"}

\* The data-line-number attribute of each line-number cell.
LineNumberAttr == [td1 |-> <<"1", "0">>, td2 |-> <<"7">>]

\* A UTF-16 code unit that is half of a surrogate pair with no partner.
LoneSurrogate == "\\uD800"

\* The text content each anchor starts with.
InitText ==
    [a1 |-> <<"s", "r", "c", "/", "f", "i", "l", "e", ".", "t", "s", "x">>,
     a2 |-> <<" ", "a", "/", "b", " ">>,
     a3 |-> <<"c">>,
     a4 |-> <<" ", " ">>,
     a5 |-> <<"x", LoneSurrogate>>,
     a6 |-> <<"d", ".", "j", "s">>,
     a7 |-> <<"u">>, a8 |-> <<"h">>, a9 |-> <<"v">>, a10 |-> <<"w">>, a11 |-> <<"m">>]

\* The text the host later gives the anchor that started blank.
LateText == <<"e", ".", "j", "s">>

\* window.location.pathname of the pages considered.
Pathnames == {<<"/", "o", "w", "n", "e", "r", "/", "r", "e", "p", "o", "/", "p", "u", "l", "l", "/", "1">>, <<"/", "o", "w", "n", "e", "r">>}

\* Values chrome.storage may hold for ideType.
IdeTypes == {<<>>, <<"r", "i", "d", "e", "r">>}


\* ------------------------------------------------------------- IDE deep link: derivation
\* Length of the run of characters other than "/" that starts at s[i].
RECURSIVE SegLen(_, _)
SegLen(s, i) == IF i > Len(s) \/ s[i] = "/" THEN 0 ELSE 1 + SegLen(s, i + 1)

\* Variant of extractProjectName: the first segment is captured.
extractProjectName_FirstSegment(pathname) ==
    LET n1 == SegLen(pathname, 2)
        n2 == SegLen(pathname, n1 + 3)
    IN IF /\ Len(pathname) >= 1 /\ pathname[1] = "/"
          /\ n1 >= 1
          /\ Len(pathname) >= n1 + 2 /\ pathname[n1 + 2] = "/"
          /\ n2 >= 1
       THEN SubSeq(pathname, 2, n1 + 1)
       ELSE <<>>

\* pathname.match(/^\/[^/]+\/([^/]+)/), then match ? match[1] : ''
extractProjectName(pathname) ==
    LET n1 == SegLen(pathname, 2)
        n2 == SegLen(pathname, n1 + 3)
    IN IF /\ Len(pathname) >= 1 /\ pathname[1] = "/"
          /\ n1 >= 1
          /\ Len(pathname) >= n1 + 2 /\ pathname[n1 + 2] = "/"
          /\ n2 >= 1
       THEN SubSeq(pathname, n1 + 3, n1 + 2 + n2)
       ELSE <<>>

\* Leading decimal digits of s as a number.
RECURSIVE DigitsValue(_, _)
DigitsValue(s, acc) ==
    IF s # <<>> /\ IsDigit(Head(s)) THEN DigitsValue(Tail(s), 10 * acc + DigitVal(Head(s)))
    ELSE acc

\* parseInt(s, 10): leading white space skipped, an optional sign, then the
\* longest run of digits; NaN when there is no digit.
parseInt(s) ==
    LET t == TrimLeft(s)
        neg == t # <<>> /\ Head(t) = "-"
        u == IF t # <<>> /\ Head(t) \in {"-", "+"} THEN Tail(t) ELSE t
    IN IF u = <<>> \/ ~IsDigit(Head(u)) THEN [nan |-> TRUE, v |-> 0]
       ELSE [nan |-> FALSE, v |-> IF neg THEN 0 - DigitsValue(u, 0) ELSE DigitsValue(u, 0)]

Max(a, b) == IF a >= b THEN a ELSE b

\* Characters encodeURIComponent leaves as they are.
Unreserved ==
    {"a", "b", "c", "d", "e", "f", "g", "h", "i", "j", "k", "l", "m", "n", "o", "p", "q",
     "r", "s", "t", "u", "v", "w", "x", "y", "z",
     "A", "B", "C", "D", "E", "F", "G", "H", "I", "J", "K", "L", "M", "N", "O", "P", "Q",
     "R", "S", "T", "U", "V", "W", "X", "Y", "Z",
     "0", "1", "2", "3", "4", "5", "6", "7", "8", "9",
     "-", "_", ".", "!", "~", "*", "'", "(", ")"}

\* The percent escapes of the other ASCII characters the pages hold.
Escapes ==
    [c \in {"/", " ", ":", "&", "=", "?", "#", "%", "+", "\t", "\n"} |->
        CASE c = "/" -> <<"%", "2", "F">>
          [] c = " " -> <<"%", "2", "0">>
          [] c = ":" -> <<"%", "3", "A">>
          [] c = "&" -> <<"%", "2", "6">>
          [] c = "=" -> <<"%", "3", "D">>
          [] c = "?" -> <<"%", "3", "F">>
          [] c = "#" -> <<"%", "2", "3">>
          [] c = "%" -> <<"%", "2", "5">>
          [] c = "+" -> <<"%", "2", "B">>
          [] c = "\t" -> <<"%", "0", "9">>
          [] c = "\n" -> <<"%", "0", "A">>]

\* encodeURIComponent throws URIError on a lone surrogate.
EncodeThrows(s) == LoneSurrogate \in Range(s)

RECURSIVE encodeURIComponent(_)
encodeURIComponent(s) ==
    IF s = <<>> THEN <<>>
    ELSE (IF Head(s) \in Unreserved THEN <<Head(s)>> ELSE Escapes[Head(s)])
         \o encodeURIComponent(Tail(s))

DefaultIde == <<"i", "d", "e", "a">>

\* Variant of constructIDEUrl: the file path is not encoded.
constructIDEUrl_RawPath(filePath, line, column, ideType, projectName) ==
    IF filePath = <<>> \/ projectName = <<>> THEN [threw |-> FALSE, url |-> <<>>]
    ELSE IF EncodeThrows(projectName) \/ EncodeThrows(filePath)
    THEN [threw |-> TRUE, url |-> <<>>]
    ELSE LET ide == IF ideType = <<>> THEN DefaultIde ELSE ideType IN
         [threw |-> FALSE,
          url |-> <<"j", "e", "t", "b", "r", "a", "i", "n", "s", ":", "/", "/">> \o ide
                  \o <<"/", "n", "a", "v", "i", "g", "a", "t", "e", "/", "r", "e", "f", "e", "r", "e", "n", "c", "e", "?", "p", "r", "o", "j", "e", "c", "t", "=">>
                  \o encodeURIComponent(projectName)
                  \o <<"&", "p", "a", "t", "h", "=">> \o filePath
                  \o <<":">> \o NatStr(line) \o <<":">> \o NatStr(column)]

\* constructIDEUrl: [threw, url]; threw when an encodeURIComponent call throws.
constructIDEUrl(filePath, line, column, ideType, projectName) ==
    IF filePath = <<>> \/ projectName = <<>> THEN [threw |-> FALSE, url |-> <<>>]
    ELSE IF EncodeThrows(projectName) \/ EncodeThrows(filePath)
    THEN [threw |-> TRUE, url |-> <<>>]
    ELSE LET ide == IF ideType = <<>> THEN DefaultIde ELSE ideType IN
         [threw |-> FALSE,
          url |-> <<"j", "e", "t", "b", "r", "a", "i", "n", "s", ":", "/", "/">> \o ide
                  \o <<"/", "n", "a", "v", "i", "g", "a", "t", "e", "/", "r", "e", "f", "e", "r", "e", "n", "c", "e", "?", "p", "r", "o", "j", "e", "c", "t", "=">>
                  \o encodeURIComponent(projectName)
                  \o <<"&", "p", "a", "t", "h", "=">> \o encodeURIComponent(filePath)
                  \o <<":">> \o NatStr(line) \o <<":">> \o NatStr(column)]


\* ------------------------------------------------------------- absolute time: formatting
IsLeap(y) == (y % 4 = 0 /\ y % 100 # 0) \/ y % 400 = 0

DaysInMonth(y, m) ==
    IF m = 2 THEN (IF IsLeap(y) THEN 29 ELSE 28)
    ELSE IF m \in {4, 6, 9, 11} THEN 30 ELSE 31

AllDigits(s) == \A i \in 1..Len(s) : IsDigit(s[i])

\* new Date(isoString) for strings of the form YYYY-MM-DDTHH:mm:ssZ, the form
\* the datetime attributes of the pages have; any other string considered
\* here ("soon") gives an invalid date.
DateParse(isoString) ==
    LET Num(a, b) == DigitsValue(SubSeq(isoString, a, b), 0)
        shaped == /\ Len(isoString) = 20
                  /\ AllDigits(SubSeq(isoString, 1, 4))
                  /\ isoString[5] = "-"
                  /\ AllDigits(SubSeq(isoString, 6, 7))
                  /\ isoString[8] = "-"
                  /\ AllDigits(SubSeq(isoString, 9, 10))
                  /\ isoString[11] = "T"
                  /\ AllDigits(SubSeq(isoString, 12, 13))
                  /\ isoString[14] = ":"
                  /\ AllDigits(SubSeq(isoString, 15, 16))
                  /\ isoString[17] = ":"
                  /\ AllDigits(SubSeq(isoString, 18, 19))
                  /\ isoString[20] = "Z"
    IN IF /\ shaped
          /\ Num(6, 7) \in 1..12
          /\ Num(9, 10) \in 1..DaysInMonth(Num(1, 4), Num(6, 7))
          /\ Num(12, 13) \in 0..23
          /\ Num(15, 16) \in 0..59
          /\ Num(18, 19) \in 0..59
       THEN [nan |-> FALSE, year |-> Num(1, 4), month |-> Num(6, 7), day |-> Num(9, 10),
             hours |-> Num(12, 13), minutes |-> Num(15, 16), seconds |-> Num(18, 19)]
       ELSE [nan |-> TRUE, year |-> 0, month |-> 0, day |-> 0,
             hours |-> 0, minutes |-> 0, seconds |-> 0]

\* The day before and the day after a calendar day.
DayBefore(d) ==
    IF d.day > 1 THEN [d EXCEPT !.day = @ - 1]
    ELSE IF d.month > 1
    THEN [d EXCEPT !.month = @ - 1, !.day = DaysInMonth(d.year, d.month - 1)]
    ELSE [d EXCEPT !.year = @ - 1, !.month = 12, !.day = 31]

DayAfter(d) ==
    IF d.day < DaysInMonth(d.year, d.month) THEN [d EXCEPT !.day = @ + 1]
    ELSE IF d.month < 12 THEN [d EXCEPT !.month = @ + 1, !.day = 1]
    ELSE [d EXCEPT !.year = @ + 1, !.month = 1, !.day = 1]

\* getFullYear, getMonth() + 1, getDate, getHours, getMinutes, getSeconds: the
\* fields of the instant in a zone tz minutes east of UTC (|tz| < 1440).
LocalFields(date, tz) ==
    LET total == date.hours * 60 + date.minutes + tz
        Shift(d) == IF total < 0 THEN DayBefore(d)
                    ELSE IF total >= 1440 THEN DayAfter(d) ELSE d
        At(m) == [Shift(date) EXCEPT !.hours = m \div 60, !.minutes = m % 60]
    IN At((total + 1440) % 1440)

\* String(n).padStart(2, '0')
PadStart2(n) == IF n < 10 THEN <<"0">> \o NatStr(n) ELSE NatStr(n)

NaNStr == <<"N", "a", "N">>

\* Variant of formatDateTime: the UTC offset indicator is left out.
formatDateTime_NoOffset(isoString, tz) ==
    LET Fmt(d) ==
            NatStr(d.year) \o <<"-">> \o PadStart2(d.month) \o <<"-">> \o PadStart2(d.day)
            \o <<" ">> \o PadStart2(d.hours) \o <<":">> \o PadStart2(d.minutes)
            \o <<":">> \o PadStart2(d.seconds)
        Of(date) ==
            IF date.nan
            THEN NaNStr \o <<"-">> \o NaNStr \o <<"-">> \o NaNStr \o <<" ">> \o NaNStr
                 \o <<":">> \o NaNStr \o <<":">> \o NaNStr
            ELSE Fmt(LocalFields(date, tz))
    IN Of(DateParse(isoString))

\* Variant of formatDateTime: the hours of the indicator are the floor of the
\* signed offset (Math.floor(offset / 60)), not of its magnitude.
formatDateTime_SignedFloor(isoString, tz) ==
    LET Fmt(d, sign, offsetHours) ==
            NatStr(d.year) \o <<"-">> \o PadStart2(d.month) \o <<"-">> \o PadStart2(d.day)
            \o <<" ">> \o PadStart2(d.hours) \o <<":">> \o PadStart2(d.minutes)
            \o <<":">> \o PadStart2(d.seconds)
            \o <<" ", "U", "T", "C", sign>> \o NatStr(offsetHours)
        Of(date) ==
            IF date.nan
            THEN NaNStr \o <<"-">> \o NaNStr \o <<"-">> \o NaNStr \o <<" ">> \o NaNStr
                 \o <<":">> \o NaNStr \o <<":">> \o NaNStr \o <<" ", "U", "T", "C", "-">>
                 \o NaNStr
            ELSE Fmt(LocalFields(date, tz), IF tz >= 0 THEN "+" ELSE "-",
                     IF tz >= 0 THEN tz \div 60 ELSE 0 - (tz \div 60))
    IN Of(DateParse(isoString))

\* formatDateTime(isoString) in a zone tz minutes east of UTC
\* (getTimezoneOffset() = -tz).
formatDateTime(isoString, tz) ==
    LET Fmt(d, sign, offsetHours) ==
            NatStr(d.year) \o <<"-">> \o PadStart2(d.month) \o <<"-">> \o PadStart2(d.day)
            \o <<" ">> \o PadStart2(d.hours) \o <<":">> \o PadStart2(d.minutes)
            \o <<":">> \o PadStart2(d.seconds)
            \o <<" ", "U", "T", "C", sign>> \o NatStr(offsetHours)
        Of(date) ==
            IF date.nan
            THEN NaNStr \o <<"-">> \o NaNStr \o <<"-">> \o NaNStr \o <<" ">> \o NaNStr
                 \o <<":">> \o NaNStr \o <<":">> \o NaNStr \o <<" ", "U", "T", "C", "-">>
                 \o NaNStr
            ELSE Fmt(LocalFields(date, tz), IF tz >= 0 THEN "+" ELSE "-",
                     (IF tz >= 0 THEN tz ELSE 0 - tz) \div 60)
    IN Of(DateParse(isoString))

\* ------------------------------------------------------------- state
VARIABLES
    kids,      \* node -> its children, in order (the live document tree)
    text,      \* anchor -> its text content
    gh,        \* elements carrying data-gh-hyper-processed="true"
    ide,       \* elements carrying data-ide-link-processed="true"
    nl,        \* labels (span.gh-hyper-absolute-time) inserted so far
    nb,        \* buttons (button.ide-link-btn) inserted so far
    owner,     \* companion -> the candidate it was inserted for (history)
    url,       \* button -> the URL its click handler navigates to
    ltext,     \* label -> its textContent
    pathname,  \* window.location.pathname
    zone,      \* the viewer's time zone, in minutes east of UTC
    storage,   \* chrome.storage.sync since the page loaded: the settings saved
               \* last (<<>>: nothing was saved) and the get calls each script
               \* has made
    settings,  \* the enable flags and the ideType as the configuration reads
               \* delivered them
    pcT,       \* absolute-time init(): idle, reading, then how it ended: disabled,
               \* rejected (the read failed), failed (the pass threw), watching
    pcI,       \* deep-link init(): the same, and noproject
    cfg,       \* ideType and projectName captured by the deep-link observer
    obsT,      \* observers the absolute-time script has registered on body
    obsI,      \* observers the deep-link script has registered on body
    qT,        \* mutation records queued for the absolute-time observer
    qI,        \* mutation records queued for the deep-link observer
    scanned,   \* scripts that have searched the document or a subtree (history)
    missed,    \* candidates a call has left without companion for want of an
               \* ancestor or of a file path (history)
    hostOps,   \* steps the page's surroundings have made
    call,      \* the exported function called directly, its arguments and result
    last       \* what the latest step did: the batch delivered, the calls made,
               \* the console output, an uncaught exception (history)

\* The options page (options.html with options.js).
VARIABLES
    sync,               \* chrome.storage.sync as the options page reads and writes it:
                        \* per key <<>> (never stored) or <<value>>
    defaultSettings,    \* the script's defaultSettings object
    page,               \* closed, loading (loadSettings waits for its read), ready
    enableAbsoluteTime, \* the checkbox's checked state
    customDomainsList,  \* the domains of the rendered items, in order; item i's
                        \* Remove button calls removeDomain(i - 1)
    customDomainInput,  \* the text field's value
    statusMessage,      \* the status element's textContent and className, and the
                        \* timer its latest showStatus call started and the pending
                        \* timer that call cleared (history)
    statusTimeout,      \* the script's statusTimeout: 0 (undefined) or a timer id
    timers,             \* ids of the timers that are pending
    tasks,              \* the handler calls made so far, each with its locals and
                        \* the await it waits at
    act                 \* what the latest step of the options page did (history)

OptionsVars ==
    <<sync, defaultSettings, page, enableAbsoluteTime, customDomainsList, customDomainInput,
      statusMessage, statusTimeout, timers, tasks, act>>

vars ==
    <<kids, text, gh, ide, nl, nb, owner, url, ltext, pathname, zone, storage, settings, pcT, pcI,
      cfg, obsT, obsI, qT, qI, scanned, missed, hostOps, call, last, OptionsVars>>

\* The document and the console while one handler runs.
World ==
    [kids |-> kids, gh |-> gh, ide |-> ide, nl |-> nl, nb |-> nb, owner |-> owner,
     url |-> url, ltext |-> ltext, recs |-> <<>>, log |-> <<>>, tcalls |-> <<>>, bcalls |-> <<>>,
     found |-> <<>>, scans |-> {}, reads |-> 0, exc |-> FALSE]

\* console.warn / console.error / console.log
Log(W, lvl, msg) == [W EXCEPT !.log = Append(@, [lvl |-> lvl, msg |-> msg])]

CountLog(log, lvl) == Len(SelectSeq(log, LAMBDA e : e.lvl = lvl))

First(s) == IF s = <<>> THEN Null ELSE Head(s)

\* scope.querySelectorAll(tag)
querySelectorAll(K, scope, tag) ==
    SelectSeq(Descendants(K, scope), LAMBDA n : tagName(n) = tag)

\* ------------------------------------------------------------- absolute time
\* Variant of LabelTry: the marker is set although no ancestor pair was found.
LabelTry_MarkOnWarn(W, el, createThrows) ==
    LET Put(parent, grand, span, formattedTime) ==
            IF parent # Null /\ grand # Null
            THEN IF InsertThrows(W.kids, grand) THEN [W EXCEPT !.exc = TRUE]
                 ELSE [W EXCEPT
                         !.kids = insertBefore(@, grand, span, nextSibling(W.kids, parent)),
                         !.nl = @ + 1,
                         !.owner[span] = el,
                         !.ltext[span] = formattedTime,
                         !.recs = IF InBody(W.kids, grand) THEN Append(@, <<span>>) ELSE @,
                         !.gh = @ \cup {el}]
            ELSE [W EXCEPT
                    !.log = Append(@, [lvl |-> "warn",
                                       msg |-> "Could not find parent for relative-time element"]),
                    !.gh = @ \cup {el}]
        At(parent) ==
            Put(parent, IF parent = Null THEN Null ELSE parentNode(W.kids, parent),
                LabelId(W.nl + 1), formatDateTime(getDatetime(el), zone))
    IN IF createThrows THEN [W EXCEPT !.exc = TRUE]
       ELSE At(parentNode(W.kids, el))

\* Variant of LabelTry: a missing ancestor is skipped without a warning.
LabelTry_SilentSkip(W, el, createThrows) ==
    LET Put(parent, grand, span, formattedTime) ==
            IF parent # Null /\ grand # Null
            THEN IF InsertThrows(W.kids, grand) THEN [W EXCEPT !.exc = TRUE]
                 ELSE [W EXCEPT
                         !.kids = insertBefore(@, grand, span, nextSibling(W.kids, parent)),
                         !.nl = @ + 1,
                         !.owner[span] = el,
                         !.ltext[span] = formattedTime,
                         !.recs = IF InBody(W.kids, grand) THEN Append(@, <<span>>) ELSE @,
                         !.gh = @ \cup {el}]
            ELSE W
        At(parent) ==
            Put(parent, IF parent = Null THEN Null ELSE parentNode(W.kids, parent),
                LabelId(W.nl + 1), formatDateTime(getDatetime(el), zone))
    IN IF createThrows THEN [W EXCEPT !.exc = TRUE]
       ELSE At(parentNode(W.kids, el))

\* Variant of LabelTry: the label is inserted into the element's parent,
\* directly after the element.
LabelTry_Sibling(W, el, createThrows) ==
    LET Put(parent, grand, span, formattedTime) ==
            IF parent # Null /\ grand # Null
            THEN IF InsertThrows(W.kids, parent) THEN [W EXCEPT !.exc = TRUE]
                 ELSE [W EXCEPT
                         !.kids = insertBefore(@, parent, span, nextSibling(W.kids, el)),
                         !.nl = @ + 1,
                         !.owner[span] = el,
                         !.ltext[span] = formattedTime,
                         !.recs = IF InBody(W.kids, parent) THEN Append(@, <<span>>) ELSE @,
                         !.gh = @ \cup {el}]
            ELSE Log(W, "warn", "Could not find parent for relative-time element")
        At(parent) ==
            Put(parent, IF parent = Null THEN Null ELSE parentNode(W.kids, parent),
                LabelId(W.nl + 1), formatDateTime(getDatetime(el), zone))
    IN IF createThrows THEN [W EXCEPT !.exc = TRUE]
       ELSE At(parentNode(W.kids, el))

\* The try block of processRelativeTime; exc is set where a statement throws.
\* createThrows: document.createElement is failing for this call.
LabelTry(W, el, createThrows) ==
    LET Put(parent, grand, span, formattedTime) ==
            IF parent # Null /\ grand # Null
            THEN IF InsertThrows(W.kids, grand) THEN [W EXCEPT !.exc = TRUE]
                 ELSE [W EXCEPT
                         !.kids = insertBefore(@, grand, span, nextSibling(W.kids, parent)),
                         !.nl = @ + 1,
                         !.owner[span] = el,
                         !.ltext[span] = formattedTime,
                         !.recs = IF InBody(W.kids, grand) THEN Append(@, <<span>>) ELSE @,
                         !.gh = @ \cup {el}]
            ELSE Log(W, "warn", "Could not find parent for relative-time element")
        At(parent) ==
            Put(parent, IF parent = Null THEN Null ELSE parentNode(W.kids, parent),
                LabelId(W.nl + 1), formatDateTime(getDatetime(el), zone))
    IN IF createThrows THEN [W EXCEPT !.exc = TRUE]
       ELSE At(parentNode(W.kids, el))

\* Variant of processRelativeTime: no try/catch around the body.
processRelativeTime_NoCatch(W, el, createThrows) ==
    IF el \in W.gh THEN W
    ELSE IF getDatetime(el) = <<>> THEN [W EXCEPT !.reads = @ + 1]
    ELSE LabelTry([W EXCEPT !.reads = @ + 1], el, createThrows)

\* Variant of processRelativeTime: the datetime attribute is not examined.
processRelativeTime_NoDateCheck(W, el, createThrows) ==
    LET Catch(R) ==
            IF R.exc
            THEN Log([R EXCEPT !.exc = FALSE], "error",
                     "Error processing relative-time element")
            ELSE R
    IN IF el \in W.gh THEN W
       ELSE Catch(LabelTry([W EXCEPT !.reads = @ + 1], el, createThrows))

\* Variant of processRelativeTime: the processed marker is not examined.
processRelativeTime_NoMarkerCheck(W, el, createThrows) ==
    LET Catch(R) ==
            IF R.exc
            THEN Log([R EXCEPT !.exc = FALSE], "error",
                     "Error processing relative-time element")
            ELSE R
    IN IF getDatetime(el) = <<>> THEN [W EXCEPT !.reads = @ + 1]
       ELSE Catch(LabelTry([W EXCEPT !.reads = @ + 1], el, createThrows))

processRelativeTime(W, el, createThrows) ==
    LET Catch(R) ==
            IF R.exc
            THEN Log([R EXCEPT !.exc = FALSE], "error",
                     "Error processing relative-time element")
            ELSE R
    IN IF el \in W.gh THEN W
       ELSE IF getDatetime(el) = <<>> THEN [W EXCEPT !.reads = @ + 1]
       ELSE Catch(LabelTry([W EXCEPT !.reads = @ + 1], el, createThrows))

\* One call of processRelativeTime, recorded: what held of el before the call
\* and what the call did.
TimeCall(W, el, F) ==
    LET Rec(R, parent, grand) ==
            [R EXCEPT !.tcalls = Append(@,
               [el |-> el,
                marked |-> el \in W.gh,
                dated |-> getDatetime(el) # <<>>,
                hasParent |-> parent # Null,
                hasGrand |-> grand # Null,
                createThrows |-> el \in F,
                insertThrows |-> grand # Null /\ InsertThrows(W.kids, grand),
                warns |-> CountLog(R.log, "warn") - CountLog(W.log, "warn"),
                errors |-> CountLog(R.log, "error") - CountLog(W.log, "error"),
                inserted |-> R.nl - W.nl,
                marks |-> el \in R.gh,
                threw |-> R.exc,
                reads |-> R.reads - W.reads,
                parent |-> parent,
                span |-> LabelId(W.nl + 1),
                before |-> IF grand = Null THEN <<>> ELSE W.kids[grand],
                after |-> IF grand = Null THEN <<>> ELSE R.kids[grand],
                siblings |-> IF parent = Null THEN <<>> ELSE R.kids[parent],
                docSame |-> /\ R.kids = W.kids /\ R.gh = W.gh /\ R.nl = W.nl
                            /\ R.ltext = W.ltext])]
        At(parent) ==
            Rec(processRelativeTime(W, el, el \in F), parent,
                IF parent = Null THEN Null ELSE parentNode(W.kids, parent))
    IN At(parentNode(W.kids, el))

\* Variant of ForEachTime: the loop ends at the first element that logs a
\* warning or an error.
RECURSIVE ForEachTime_Break(_, _, _)
ForEachTime_Break(W, els, F) ==
    IF els = <<>> \/ W.exc \/ W.log # <<>> THEN W
    ELSE ForEachTime_Break(TimeCall(W, Head(els), F), Tail(els), F)

\* elements.forEach(processRelativeTime); an exception ends the loop.
RECURSIVE ForEachTime(_, _, _)
ForEachTime(W, els, F) ==
    IF els = <<>> \/ W.exc THEN W
    ELSE ForEachTime(TimeCall(W, Head(els), F), Tail(els), F)

\* querySelectorAll('relative-time') under scope, then forEach.
ProcessAllIn(W, scope, F) ==
    IF W.exc THEN W
    ELSE ForEachTime([W EXCEPT !.scans = @ \cup {"time"}],
                     querySelectorAll(W.kids, scope, "RELATIVE-TIME"), F)

processAllRelativeTimes(W, F) == ProcessAllIn(W, "doc", F)

\* Variant of TimeAddedNode: the descendants of the added node are not
\* searched.
TimeAddedNode_SelfOnly(W, node, F) ==
    IF IsElement(node) /\ tagName(node) = "RELATIVE-TIME"
    THEN ForEachTime(W, <<node>>, F)
    ELSE W

\* The observer callback, for one added node.
TimeAddedNode(W, node, F) ==
    IF ~IsElement(node) THEN W
    ELSE ProcessAllIn(IF tagName(node) = "RELATIVE-TIME"
                      THEN ForEachTime(W, <<node>>, F) ELSE W,
                      node, F)

RECURSIVE TimeAddedNodes(_, _, _)
TimeAddedNodes(W, nodes, F) ==
    IF nodes = <<>> \/ W.exc THEN W
    ELSE TimeAddedNodes(TimeAddedNode(W, Head(nodes), F), Tail(nodes), F)

\* mutations.forEach(mutation => mutation.addedNodes.forEach(...))
RECURSIVE TimeCallback(_, _, _)
TimeCallback(W, mutations, F) ==
    IF mutations = <<>> \/ W.exc THEN W
    ELSE TimeCallback(TimeAddedNodes(W, Head(mutations), F), Tail(mutations), F)

\* ------------------------------------------------------------- IDE deep link
\* Variant of extractFileInfo: the text is not trimmed.
extractFileInfo_NoTrim(anchorElement) ==
    IF anchorElement = Null \/ tagName(anchorElement) # "A" THEN <<>>
    ELSE text[anchorElement]

extractFileInfo(anchorElement) ==
    IF anchorElement = Null \/ tagName(anchorElement) # "A" THEN <<>>
    ELSE Trim(text[anchorElement])

\* Variant of extractLineNumber: the 1-based number is returned as it is.
extractLineNumber_OneBased(K, A, detailsElement) ==
    LET Conv(lineNumber) == IF lineNumber.nan THEN 0 ELSE Max(0, lineNumber.v)
        Of(lineNumberTd) ==
            IF lineNumberTd = Null THEN 0
            ELSE Conv(parseInt(A[lineNumberTd]))
    IN IF detailsElement = Null THEN 0
       ELSE Of(First(SelectSeq(Descendants(K, detailsElement),
                               LAMBDA n : tagName(n) = "TD" /\ n \in DOMAIN A)))

\* detailsElement.querySelector('td[data-line-number]'), then parseInt; A
\* holds the data-line-number attribute of each cell that has one.
extractLineNumber(K, A, detailsElement) ==
    LET Conv(lineNumber) == IF lineNumber.nan THEN 0 ELSE Max(0, lineNumber.v - 1)
        Of(lineNumberTd) ==
            IF lineNumberTd = Null THEN 0
            ELSE Conv(parseInt(A[lineNumberTd]))
    IN IF detailsElement = Null THEN 0
       ELSE Of(First(SelectSeq(Descendants(K, detailsElement),
                               LAMBDA n : tagName(n) = "TD" /\ n \in DOMAIN A)))

\* Variant of BlockOf: the first anchor that is unmarked and has a file href
\* is taken, wherever it stands among the summary's anchors.
BlockOf_LaterAnchor(W, details) ==
    LET FileHref(href) ==
            /\ href # <<>>
            /\ \/ Includes(href, <<"/", "f", "i", "l", "e", "s", "/">>)
               \/ Includes(href, <<"/", "b", "l", "o", "b", "/">>)
        WithAnchor(anchor) ==
            IF anchor = Null THEN <<>>
            ELSE <<[anchor |-> anchor, details |-> details]>>
        WithSummary(summary) ==
            IF summary = Null THEN <<>>
            ELSE WithAnchor(First(SelectSeq(Descendants(W.kids, summary),
                                            LAMBDA n : /\ tagName(n) = "A"
                                                       /\ n \in TextMono
                                                       /\ n \notin W.ide
                                                       /\ n \in DOMAIN HrefAttr
                                                       /\ FileHref(HrefAttr[n]))))
    IN WithSummary(First(querySelectorAll(W.kids, details, "SUMMARY")))

\* The body of findReviewCommentBlocks' loop for one container: the block it
\* pushes, if any.
BlockOf(W, details) ==
    LET Check(anchor, href) ==
            IF anchor = Null \/ anchor \in W.ide THEN <<>>
            ELSE IF /\ href # <<>>
                    /\ \/ Includes(href, <<"/", "f", "i", "l", "e", "s", "/">>)
                       \/ Includes(href, <<"/", "b", "l", "o", "b", "/">>)
            THEN <<[anchor |-> anchor, details |-> details]>>
            ELSE <<>>
        WithAnchor(anchor) ==
            Check(anchor, IF anchor \in DOMAIN HrefAttr THEN HrefAttr[anchor] ELSE <<>>)
        WithSummary(summary) ==
            IF summary = Null THEN <<>>
            ELSE WithAnchor(First(SelectSeq(Descendants(W.kids, summary),
                                            LAMBDA n : tagName(n) = "A" /\ n \in TextMono)))
    IN WithSummary(First(querySelectorAll(W.kids, details, "SUMMARY")))

RECURSIVE BlocksOf(_, _)
BlocksOf(W, detailsElements) ==
    IF detailsElements = <<>> THEN <<>>
    ELSE BlockOf(W, Head(detailsElements)) \o BlocksOf(W, Tail(detailsElements))

findReviewCommentBlocks(W) ==
    BlocksOf(W, querySelectorAll(W.kids, "doc", "DETAILS-COLLAPSIBLE"))

\* Variant of InjectBlock: the button is always appended to the anchor's
\* parent.
InjectBlock_AppendLast(W, block, ideType, projectName) ==
    LET Put(anchor, u, button, parent) ==
            IF u.threw THEN [W EXCEPT !.exc = TRUE]
            ELSE IF u.url = <<>> THEN W
            ELSE IF parent = Null THEN [W EXCEPT !.exc = TRUE]
            ELSE [W EXCEPT
                    !.kids = insertBefore(@, parent, button, Null),
                    !.nb = @ + 1,
                    !.owner[button] = anchor,
                    !.url[button] = u.url,
                    !.recs = IF InBody(W.kids, parent) THEN Append(@, <<button>>) ELSE @,
                    !.ide = @ \cup {anchor}]
        WithPath(filePath) ==
            IF filePath = <<>> THEN W
            ELSE Put(block.anchor,
                     constructIDEUrl(filePath, extractLineNumber(W.kids, LineNumberAttr, block.details), 0,
                                     ideType, projectName),
                     ButtonId(W.nb + 1),
                     parentNode(W.kids, block.anchor))
    IN WithPath(extractFileInfo(block.anchor))

\* Variant of InjectBlock: a block whose file path is empty is marked
\* processed.
InjectBlock_MarkEmpty(W, block, ideType, projectName) ==
    LET Put(anchor, u, button, parent) ==
            IF u.threw THEN [W EXCEPT !.exc = TRUE]
            ELSE IF u.url = <<>> THEN W
            ELSE IF parent = Null THEN [W EXCEPT !.exc = TRUE]
            ELSE [W EXCEPT
                    !.kids = insertBefore(@, parent, button, nextSibling(W.kids, anchor)),
                    !.nb = @ + 1,
                    !.owner[button] = anchor,
                    !.url[button] = u.url,
                    !.recs = IF InBody(W.kids, parent) THEN Append(@, <<button>>) ELSE @,
                    !.ide = @ \cup {anchor}]
        WithPath(filePath) ==
            IF filePath = <<>> THEN [W EXCEPT !.ide = @ \cup {block.anchor}]
            ELSE Put(block.anchor,
                     constructIDEUrl(filePath, extractLineNumber(W.kids, LineNumberAttr, block.details), 0,
                                     ideType, projectName),
                     ButtonId(W.nb + 1),
                     parentNode(W.kids, block.anchor))
    IN WithPath(extractFileInfo(block.anchor))

\* The body of injectButtons' loop for one block.
InjectBlock(W, block, ideType, projectName) ==
    LET Put(anchor, u, button, parent) ==
            IF u.threw THEN [W EXCEPT !.exc = TRUE]
            ELSE IF u.url = <<>> THEN W
            ELSE IF parent = Null THEN [W EXCEPT !.exc = TRUE]
            ELSE [W EXCEPT
                    !.kids = insertBefore(@, parent, button, nextSibling(W.kids, anchor)),
                    !.nb = @ + 1,
                    !.owner[button] = anchor,
                    !.url[button] = u.url,
                    !.recs = IF InBody(W.kids, parent) THEN Append(@, <<button>>) ELSE @,
                    !.ide = @ \cup {anchor}]
        WithPath(filePath) ==
            IF filePath = <<>> THEN W
            ELSE Put(block.anchor,
                     constructIDEUrl(filePath, extractLineNumber(W.kids, LineNumberAttr, block.details), 0,
                                     ideType, projectName),
                     ButtonId(W.nb + 1),
                     parentNode(W.kids, block.anchor))
    IN WithPath(extractFileInfo(block.anchor))

\* One round of the loop, recorded.
BlockCall(W, block, ideType, projectName) ==
    LET Rec(R, parent) ==
            [R EXCEPT !.bcalls = Append(@,
               [anchor |-> block.anchor,
                details |-> block.details,
                marked |-> block.anchor \in W.ide,
                pathEmpty |-> Trim(text[block.anchor]) = <<>>,
                badText |-> LoneSurrogate \in Range(text[block.anchor]),
                inserted |-> R.nb - W.nb,
                marks |-> block.anchor \in R.ide,
                threw |-> R.exc,
                button |-> ButtonId(W.nb + 1),
                before |-> IF parent = Null THEN <<>> ELSE W.kids[parent],
                after |-> IF parent = Null THEN <<>> ELSE R.kids[parent],
                docSame |-> /\ R.kids = W.kids /\ R.ide = W.ide /\ R.nb = W.nb
                            /\ R.url = W.url])]
    IN Rec(InjectBlock(W, block, ideType, projectName), parentNode(W.kids, block.anchor))

\* blocks.forEach(...); an exception ends the loop and leaves injectButtons.
RECURSIVE ForEachBlock(_, _, _, _)
ForEachBlock(W, blocks, ideType, projectName) ==
    IF blocks = <<>> \/ W.exc THEN W
    ELSE ForEachBlock(BlockCall(W, Head(blocks), ideType, projectName), Tail(blocks),
                      ideType, projectName)

\* Variant of injectButtons: the project name is not examined.
injectButtons_NoGuard(W, ideType, projectName) ==
    LET Run(blocks) ==
            ForEachBlock([W EXCEPT !.scans = @ \cup {"ide"}, !.found = Append(@, blocks)],
                         blocks, ideType, projectName)
    IN Run(findReviewCommentBlocks(W))

injectButtons(W, ideType, projectName) ==
    LET Run(blocks) ==
            ForEachBlock([W EXCEPT !.scans = @ \cup {"ide"}, !.found = Append(@, blocks)],
                         blocks, ideType, projectName)
    IN IF projectName = <<>>
       THEN Log(W, "warn", "Cannot inject IDE buttons - project name not found")
       ELSE Run(findReviewCommentBlocks(W))

\* Variant of IdeAddedNode: blocks are located inside the added node only.
IdeAddedNode_Scoped(W, node, ideType, projectName) ==
    LET Run(blocks) ==
            ForEachBlock([W EXCEPT !.scans = @ \cup {"ide"}, !.found = Append(@, blocks)],
                         blocks, ideType, projectName)
    IN IF ~IsElement(node) THEN W
       ELSE IF \/ tagName(node) = "DETAILS-COLLAPSIBLE"
               \/ querySelectorAll(W.kids, node, "DETAILS-COLLAPSIBLE") # <<>>
       THEN Run(BlocksOf(W, SelectSeq(<<node>> \o Descendants(W.kids, node),
                                      LAMBDA d : tagName(d) = "DETAILS-COLLAPSIBLE")))
       ELSE W

\* Variant of IdeAddedNode: any added element sets off the rescan.
IdeAddedNode_AnyElement(W, node, ideType, projectName) ==
    IF ~IsElement(node) THEN W
    ELSE injectButtons(W, ideType, projectName)

\* The observer callback, for one added node.
IdeAddedNode(W, node, ideType, projectName) ==
    IF ~IsElement(node) THEN W
    ELSE IF \/ tagName(node) = "DETAILS-COLLAPSIBLE"
            \/ querySelectorAll(W.kids, node, "DETAILS-COLLAPSIBLE") # <<>>
    THEN injectButtons(W, ideType, projectName)
    ELSE W

RECURSIVE IdeAddedNodes(_, _, _, _)
IdeAddedNodes(W, nodes, ideType, projectName) ==
    IF nodes = <<>> \/ W.exc THEN W
    ELSE IdeAddedNodes(IdeAddedNode(W, Head(nodes), ideType, projectName), Tail(nodes),
                       ideType, projectName)

RECURSIVE IdeCallback(_, _, _, _)
IdeCallback(W, mutations, ideType, projectName) ==
    IF mutations = <<>> \/ W.exc THEN W
    ELSE IdeCallback(IdeAddedNodes(W, Head(mutations), ideType, projectName),
                     Tail(mutations), ideType, projectName)

\* ------------------------------------------------------------- init()
\* Inputs of a step: the elements for which document.createElement('span')
\* fails while the step runs.
FaultChoices == {{}, {"t1"}, {"t3"}}

\* What init() leaves behind: the document and console, the state init()
\* ended in, and the observers it registered.
Outcome(W, pc, obs) == [w |-> W, pc |-> pc, obs |-> obs]

\* Variant of TimeInitResolved: the enable flag is not consulted.
TimeInitResolved_IgnoreFlag(W, enabled, F) ==
    Outcome(processAllRelativeTimes(W, F), "watching", 1)

\* absolute time: init() after chrome.storage.sync.get has resolved.
TimeInitResolved(W, enabled, F) ==
    LET Then(R) ==
            IF R.exc
            THEN Outcome(Log([R EXCEPT !.exc = FALSE], "error", "Error initializing"),
                         "failed", 0)
            ELSE Outcome(R, "watching", 1)
    IN IF ~enabled
       THEN Outcome(Log(W, "log", "Absolute time feature is disabled"), "disabled", 0)
       ELSE Then(processAllRelativeTimes(W, F))

\* Variant of TimeInitRejected: the catch block carries on with the defaults.
TimeInitRejected_Fallback(W) ==
    Outcome(processAllRelativeTimes(Log(W, "error", "Error initializing"), {}),
            "watching", 1)

\* absolute time: init() when chrome.storage.sync.get rejects.
TimeInitRejected(W) == Outcome(Log(W, "error", "Error initializing"), "rejected", 0)

\* deep link: init() after chrome.storage.sync.get has resolved.
IdeInitResolved(W, enabled, ideType) ==
    LET Then(R) ==
            IF R.exc
            THEN Outcome(Log([R EXCEPT !.exc = FALSE], "error",
                             "Error initializing IDE deep link"),
                         "failed", 0)
            ELSE Outcome(R, "watching", 1)
        WithProject(projectName) ==
            IF projectName = <<>>
            THEN Outcome(Log(W, "warn", "Could not extract project name from URL"),
                         "noproject", 0)
            ELSE Then(injectButtons(W, ideType, projectName))
    IN IF ~enabled
       THEN Outcome(Log(W, "log", "IDE deep link feature is disabled"), "disabled", 0)
       ELSE WithProject(extractProjectName(pathname))

\* deep link: init() when chrome.storage.sync.get rejects.
IdeInitRejected(W) ==
    Outcome(Log(W, "error", "Error initializing IDE deep link"), "rejected", 0)

\* ------------------------------------------------------------- options page
LowerLetters ==
    <<"a", "b", "c", "d", "e", "f", "g", "h", "i", "j", "k", "l", "m", "n", "o", "p", "q", "r",
      "s", "t", "u", "v", "w", "x", "y", "z">>

UpperLetters ==
    <<"A", "B", "C", "D", "E", "F", "G", "H", "I", "J", "K", "L", "M", "N", "O", "P", "Q", "R",
      "S", "T", "U", "V", "W", "X", "Y", "Z">>

\* String.prototype.toLowerCase on the characters of the model
toLowerCase(s) ==
    [i \in 1..Len(s) |->
        IF \E k \in 1..26 : UpperLetters[k] = s[i]
        THEN LowerLetters[CHOOSE k \in 1..26 : UpperLetters[k] = s[i]]
        ELSE s[i]]

\* /^[a-z0-9]+([\-\.]{1}[a-z0-9]+)*\.[a-z]{2,}$/i .test(domain): a last "."
\* followed by two letters or more, and before it runs of letters and digits
\* joined by single "-" or ".".
isValidDomain(domain) ==
    LET n == Len(domain)
        low == toLowerCase(domain)
        IsAlpha(i) == low[i] \in Range(LowerLetters)
        IsAlnum(i) == IsAlpha(i) \/ IsDigit(low[i])
        IsSep(i) == low[i] \in {"-", "."}
        Runs(j) ==
            /\ j >= 1
            /\ IsAlnum(1)
            /\ IsAlnum(j)
            /\ \A i \in 1..j : IsAlnum(i) \/ (IsSep(i) /\ IsAlnum(i + 1))
    IN \E k \in 1..n :
           /\ low[k] = "."
           /\ Runs(k - 1)
           /\ n - k >= 2
           /\ \A m \in (k + 1)..n : IsAlpha(m)

\* Array.prototype.includes
ArrayIncludes(domains, domain) == \E i \in 1..Len(domains) : domains[i] = domain

\* domains.splice(index, 1)
Splice(domains, index) ==
    IF index < Len(domains)
    THEN SubSeq(domains, 1, index) \o SubSeq(domains, index + 2, Len(domains))
    ELSE domains

\* defaultSettings as the script defines it.
DefaultSettings == [enableAbsoluteTime |-> TRUE, customDomains |-> <<>>]

\* Nothing was ever stored.
EmptySync == [enableAbsoluteTime |-> <<>>, customDomains |-> <<>>]

\* chrome.storage.sync.get(defaultSettings): the stored value of each key of
\* the defaults, the default's value for a key that is not stored.
StorageGet(S, defaults) ==
    [enableAbsoluteTime |->
        IF S.enableAbsoluteTime = <<>> THEN defaults.enableAbsoluteTime
        ELSE S.enableAbsoluteTime[1],
     customDomains |->
        IF S.customDomains = <<>> THEN defaults.customDomains ELSE S.customDomains[1]]

\* chrome.storage.sync.set(newSettings)
StorageSet(S, newSettings) ==
    [enableAbsoluteTime |-> <<newSettings.enableAbsoluteTime>>,
     customDomains |-> <<newSettings.customDomains>>]

\* The options page's script and document while one handler runs.
OptionsPage ==
    [defaultSettings |-> defaultSettings, customDomainsList |-> customDomainsList,
     customDomainInput |-> customDomainInput, statusMessage |-> statusMessage,
     statusTimeout |-> statusTimeout, timers |-> timers]

\* showStatus(message, type) without its clearTimeout.
showStatus_NoClear(O, message, type) ==
    LET id == O.statusTimeout + 1
    IN [O EXCEPT !.statusMessage = [textContent |-> message, type |-> type, show |-> TRUE,
                                    timer |-> id, cleared |-> 0],
                 !.timers = O.timers \cup {id},
                 !.statusTimeout = id]

\* showStatus(message, type): setTimeout returns an id no timer had before.
showStatus(O, message, type) ==
    LET id == O.statusTimeout + 1
        cleared == IF O.statusTimeout # 0 THEN O.timers \ {O.statusTimeout} ELSE O.timers
    IN [O EXCEPT !.statusMessage = [textContent |-> message, type |-> type, show |-> TRUE,
                                    timer |-> id,
                                    cleared |-> IF O.statusTimeout \in O.timers
                                                THEN O.statusTimeout ELSE 0],
                 !.timers = cleared \cup {id},
                 !.statusTimeout = id]

\* renderDomainList(domains): no item but the placeholder for an empty list.
renderDomainList(O, domains) == [O EXCEPT !.customDomainsList = domains]

\* A handler call that has made no step yet; saved records that its write to
\* storage has succeeded (history).
NewTask(kind) ==
    [kind |-> kind, pc |-> "done", partial |-> <<>>, domain |-> <<>>, index |-> 0,
     shown |-> <<>>, alias |-> FALSE, domains |-> <<>>, newSettings |-> <<>>,
     saved |-> FALSE]

\* The array a call's local domains refers to: its own copy of the stored
\* list, or the customDomains array of defaultSettings itself.
DomainsOf(O, t) == IF t.alias THEN O.defaultSettings.customDomains ELSE t.domains

NoAct == [op |-> "none", task |-> 0, ok |-> TRUE, timer |-> 0]

\* The options page is not open.
OptionsClosed ==
    /\ sync = EmptySync
    /\ defaultSettings = DefaultSettings
    /\ page = "closed"
    /\ enableAbsoluteTime = FALSE
    /\ customDomainsList = <<>>
    /\ customDomainInput = <<>>
    /\ statusMessage = [textContent |-> "", type |-> "", show |-> FALSE, timer |-> 0,
                        cleared |-> 0]
    /\ statusTimeout = 0
    /\ timers = {}
    /\ tasks = <<>>
    /\ act = NoAct

\* ------------------------------------------------------------- steps
NoCall == [fn |-> "none"]

NoCfg == [ideType |-> <<>>, projectName |-> <<>>]

\* The page and the scripts before anything has run.
PageInit ==
    /\ kids = InitKids
    /\ text = InitText
    /\ gh = {}
    /\ ide = {}
    /\ nl = 0
    /\ nb = 0
    /\ owner = [c \in LabelIds \cup ButtonIds |-> Null]
    /\ url = [b \in ButtonIds |-> <<>>]
    /\ ltext = [l \in LabelIds |-> <<>>]
    /\ pathname \in Pathnames
    /\ storage = [saved |-> <<>>, getsT |-> 0, getsI |-> 0]
    /\ settings = [enableAbsoluteTime |-> "unread", enableIDEDeepLink |-> "unread",
                   ideType |-> <<>>]
    /\ pcT = "idle"
    /\ pcI = "idle"
    /\ cfg = NoCfg
    /\ obsT = 0
    /\ obsI = 0
    /\ qT = <<>>
    /\ qI = <<>>
    /\ scanned = {}
    /\ missed = {}
    /\ hostOps = 0
    /\ last = [op |-> "load", batch |-> <<>>, tcalls |-> <<>>, bcalls |-> <<>>,
               found |-> <<>>, log |-> <<>>, threw |-> FALSE]

\* A viewer in UTC opens the page.
Init == PageInit /\ zone = 0 /\ call = NoCall /\ OptionsClosed

\* The document, the console and the history after a handler has run.
Commit(W, op, batch) ==
    /\ W.nl <= MaxLabels
    /\ W.nb <= MaxButtons
    /\ kids' = W.kids
    /\ gh' = W.gh
    /\ ide' = W.ide
    /\ nl' = W.nl
    /\ nb' = W.nb
    /\ owner' = W.owner
    /\ url' = W.url
    /\ ltext' = W.ltext
    /\ scanned' = scanned \cup W.scans
    /\ missed' = missed \cup {W.tcalls[i].el : i \in {j \in 1..Len(W.tcalls) : W.tcalls[j].warns > 0}}
                        \cup {W.bcalls[i].anchor : i \in {j \in 1..Len(W.bcalls) : W.bcalls[j].pathEmpty}}
    /\ last' = [op |-> op, batch |-> batch, tcalls |-> W.tcalls, bcalls |-> W.bcalls,
                found |-> W.found, log |-> W.log, threw |-> W.exc]

\* Records of a handler's own insertions reach the observers registered
\* when it ran.
Notify(q, obs, recs) == IF obs > 0 THEN q \o recs ELSE q

\* Variant of TimeInitStart: the document is processed before the read is
\* awaited.
TimeInitStart_Eager ==
    /\ pcT = "idle"
    /\ pcT' = "reading"
    /\ \E W \in {processAllRelativeTimes(World, {})} :
         /\ Commit(W, "timeInit", <<>>)
         /\ qI' = Notify(qI, obsI, W.recs)
    /\ storage' = [storage EXCEPT !.getsT = @ + 1]
    /\ UNCHANGED <<text, pathname, zone, OptionsVars, call, settings, pcI, cfg, obsT, obsI, qT, hostOps>>

\* The script runs init(), which calls chrome.storage.sync.get and awaits it.
TimeInitStart ==
    /\ pcT = "idle"
    /\ pcT' = "reading"
    /\ Commit(World, "timeInit", <<>>)
    /\ storage' = [storage EXCEPT !.getsT = @ + 1]
    /\ UNCHANGED <<text, pathname, zone, OptionsVars, call, settings, pcI, cfg, obsT, obsI, qT, qI, hostOps>>

TimeConfigResolved ==
    /\ pcT = "reading"
    /\ \E enabled \in BOOLEAN, F \in FaultChoices :
         \E R \in {TimeInitResolved(World, enabled, F)} :
            /\ Commit(R.w, "timeResolved", <<>>)
            /\ settings' = [settings EXCEPT
                               !.enableAbsoluteTime = IF enabled THEN "true" ELSE "false"]
            /\ pcT' = R.pc
            /\ obsT' = obsT + R.obs
            /\ qI' = Notify(qI, obsI, R.w.recs)
    /\ UNCHANGED <<text, pathname, zone, OptionsVars, storage, call, pcI, cfg, obsI, qT, hostOps>>

TimeConfigRejected ==
    /\ pcT = "reading"
    /\ \E R \in {TimeInitRejected(World)} :
         /\ Commit(R.w, "timeRejected", <<>>)
         /\ settings' = [settings EXCEPT !.enableAbsoluteTime = "rejected"]
         /\ pcT' = R.pc
         /\ obsT' = obsT + R.obs
    /\ UNCHANGED <<text, pathname, zone, OptionsVars, storage, call, pcI, cfg, obsI, qT, qI, hostOps>>

\* The browser delivers the queued records to the absolute-time observer.
TimeObserverCallback ==
    /\ obsT > 0
    /\ qT # <<>>
    /\ \E F \in FaultChoices :
         \E W \in {TimeCallback(World, qT, F)} :
            /\ Commit(W, "timeCallback", qT)
            /\ qT' = W.recs
            /\ qI' = Notify(qI, obsI, W.recs)
    /\ UNCHANGED <<text, pathname, zone, OptionsVars, storage, call, settings, pcT, pcI, cfg, obsT, obsI, hostOps>>

IdeInitStart ==
    /\ pcI = "idle"
    /\ pcI' = "reading"
    /\ Commit(World, "ideInit", <<>>)
    /\ storage' = [storage EXCEPT !.getsI = @ + 1]
    /\ UNCHANGED <<text, pathname, zone, OptionsVars, call, settings, pcT, cfg, obsT, obsI, qT, qI, hostOps>>

IdeConfigResolved ==
    /\ pcI = "reading"
    /\ \E enabled \in BOOLEAN, ideType \in IdeTypes :
         \E R \in {IdeInitResolved(World, enabled, ideType)} :
            /\ Commit(R.w, "ideResolved", <<>>)
            /\ settings' = [settings EXCEPT
                               !.enableIDEDeepLink = IF enabled THEN "true" ELSE "false",
                               !.ideType = ideType]
            /\ pcI' = R.pc
            /\ obsI' = obsI + R.obs
            /\ cfg' = IF R.obs > 0
                      THEN [ideType |-> ideType,
                            projectName |-> extractProjectName(pathname)]
                      ELSE cfg
            /\ qT' = Notify(qT, obsT, R.w.recs)
    /\ UNCHANGED <<text, pathname, zone, OptionsVars, storage, call, pcT, obsT, qI, hostOps>>

IdeConfigRejected ==
    /\ pcI = "reading"
    /\ \E R \in {IdeInitRejected(World)} :
         /\ Commit(R.w, "ideRejected", <<>>)
         /\ settings' = [settings EXCEPT !.enableIDEDeepLink = "rejected"]
         /\ pcI' = R.pc
         /\ obsI' = obsI + R.obs
    /\ UNCHANGED <<text, pathname, zone, OptionsVars, storage, call, pcT, cfg, obsT, qT, qI, hostOps>>

\* Variant of IdeObserverCallback: the callback uses the ideType saved last.
IdeObserverCallback_Reread ==
    /\ obsI > 0
    /\ qI # <<>>
    /\ \E W \in {IdeCallback(World, qI,
                              IF storage.saved = <<>> THEN cfg.ideType
                              ELSE storage.saved[1].ideType,
                              cfg.projectName)} :
         /\ Commit(W, "ideCallback", qI)
         /\ qI' = W.recs
         /\ qT' = Notify(qT, obsT, W.recs)
    /\ UNCHANGED <<text, pathname, zone, OptionsVars, storage, call, settings, pcT, pcI, cfg, obsT, obsI, hostOps>>

\* The browser delivers the queued records to the deep-link observer.  An
\* exception leaves the callback; the records of the batch are consumed.
IdeObserverCallback ==
    /\ obsI > 0
    /\ qI # <<>>
    /\ \E W \in {IdeCallback(World, qI, cfg.ideType, cfg.projectName)} :
         /\ Commit(W, "ideCallback", qI)
         /\ qI' = W.recs
         /\ qT' = Notify(qT, obsT, W.recs)
    /\ UNCHANGED <<text, pathname, zone, OptionsVars, storage, call, settings, pcT, pcI, cfg, obsT, obsI, hostOps>>

\* ------------------------------------------------------------- the host page
Detached(n) == parentNode(kids, n) = Null

\* observer.observe(document.body, { childList: true, subtree: true })
ObserveOptions == [childList |-> TRUE, subtree |-> TRUE]

\* A change of target's children is reported to an observer on body.
Observed(K, target) ==
    /\ ObserveOptions.childList
    /\ target = "body" \/ (ObserveOptions.subtree /\ InBody(K, target))

\* What the observers are told of a host mutation under target.
HostRecord(target, added) ==
    /\ qT' = Notify(qT, obsT, IF Observed(kids, target) THEN <<added>> ELSE <<>>)
    /\ qI' = Notify(qI, obsI, IF Observed(kids, target) THEN <<added>> ELSE <<>>)

HostStep(op) ==
    /\ hostOps < MaxHostOps
    /\ hostOps' = hostOps + 1
    /\ last' = [op |-> op, batch |-> <<>>, tcalls |-> <<>>, bcalls |-> <<>>,
                found |-> <<>>, log |-> <<>>, threw |-> FALSE]
    /\ UNCHANGED <<gh, ide, nl, nb, owner, url, ltext, pathname, zone, OptionsVars, storage, call, settings, pcT, pcI, cfg, obsT, obsI,
                   scanned, missed>>

\* parent.appendChild(n) for a fragment that is not in any tree.
HostAttach ==
    \E n \in Movable : \E p \in Slots[n] :
        /\ Detached(n)
        /\ kids' = [kids EXCEPT ![p] = Append(@, n)]
        /\ HostRecord(p, <<n>>)
        /\ HostStep("hostAttach")
        /\ UNCHANGED text

\* n.remove(); the record of a removal lists no added node.
HostDetach ==
    \E n \in Movable :
        /\ ~Detached(n)
        /\ kids' = [kids EXCEPT ![parentNode(kids, n)] = SelectSeq(@, LAMBDA c : c # n)]
        /\ HostStep("hostDetach")
        /\ UNCHANGED <<text, qT, qI>>

\* a4.textContent = ...: the old text node is replaced by a new one.
HostSetText ==
    /\ text["a4"] # LateText
    /\ text' = [text EXCEPT !["a4"] = LateText]
    /\ kids' = [kids EXCEPT !["a4"] = <<"ty">>]
    /\ HostRecord("a4", <<"ty">>)
    /\ HostStep("hostSetText")

\* Settings the options page (or a synced browser) may save while the page
\* is open.
SavedSettings ==
    {[enableAbsoluteTime |-> FALSE, enableIDEDeepLink |-> FALSE, ideType |-> t] :
        t \in IdeTypes}

\* chrome.storage.sync.set after both scripts' reads have ended (what is
\* saved before a read ends is among the values the read may deliver).
\* Neither script has registered a chrome.storage.onChanged listener: nothing
\* else changes.
SettingsSaved ==
    /\ pcT \notin {"idle", "reading"}
    /\ pcI \notin {"idle", "reading"}
    /\ hostOps < MaxHostOps
    /\ hostOps' = hostOps + 1
    /\ \E saved \in SavedSettings : storage' = [storage EXCEPT !.saved = <<saved>>]
    /\ last' = [op |-> "settingsSaved", batch |-> <<>>, tcalls |-> <<>>, bcalls |-> <<>>,
                found |-> <<>>, log |-> <<>>, threw |-> FALSE]
    /\ UNCHANGED <<kids, text, gh, ide, nl, nb, owner, url, ltext, pathname, zone, OptionsVars, call,
                   settings, pcT, pcI, cfg, obsT, obsI, qT, qI, scanned, missed>>

Next ==
    \/ TimeInitStart
    \/ TimeConfigResolved
    \/ TimeConfigRejected
    \/ TimeObserverCallback
    \/ IdeInitStart
    \/ IdeConfigResolved
    \/ IdeConfigRejected
    \/ IdeObserverCallback
    \/ HostAttach
    \/ HostDetach
    \/ HostSetText

Spec == Init /\ [][Next]_vars

\* ------------------------------------------------------------- direct calls
\* Everything but the record of the direct call.
PageVars ==
    <<kids, text, gh, ide, nl, nb, owner, url, ltext, pathname, zone, storage, settings, pcT, pcI,
      cfg, obsT, obsI, qT, qI, scanned, missed, hostOps, last, OptionsVars>>

\* All strings over alphabet of length at most n.
StringsUpTo(alphabet, n) == UNION {[1..k -> alphabet] : k \in 0..n}

\* Values of a data-line-number attribute.
LineAlphabet == {"0", "1", "2", "9", "-", "+", " ", "a"}

LineStrings == StringsUpTo(LineAlphabet, MaxAttrLen)

\* The containers extractLineNumber is handed: none, one without a cell, one
\* with one cell, one with two cells.
Containers == {"absent", "nocell", "one", "two"}

\* The tree in which d1 holds a second cell, td2, ahead of td1.
TwoCells == [InitKids EXCEPT !["d1"] = <<"td2">> \o @, !["d2"] = <<"s2">>]

\* The arguments of a direct call of extractLineNumber(detailsElement).
LineNumberCalls ==
    {[fn |-> "extractLineNumber", done |-> FALSE, container |-> c, attr |-> attr,
      ret |-> 0] : c \in Containers, attr \in LineStrings}

\* extractLineNumber(detailsElement) called directly.
CallExtractLineNumber ==
    /\ call.fn = "extractLineNumber"
    /\ ~call.done
    /\ call' = [call EXCEPT
                  !.done = TRUE,
                  !.ret = CASE call.container = "absent" ->
                                  extractLineNumber(InitKids, LineNumberAttr, Null)
                            [] call.container = "nocell" ->
                                  extractLineNumber(InitKids, LineNumberAttr, "d3")
                            [] call.container = "one" ->
                                  extractLineNumber(InitKids,
                                      [LineNumberAttr EXCEPT !["td1"] = call.attr], "d1")
                            [] call.container = "two" ->
                                  extractLineNumber(TwoCells,
                                      [LineNumberAttr EXCEPT !["td2"] = call.attr], "d1")]
    /\ UNCHANGED PageVars

\* File paths and project names handed to constructIDEUrl.
NameAlphabet == {"a", "/", LoneSurrogate}

NameStrings == StringsUpTo(NameAlphabet, MaxNameLen)

\* Line and column numbers handed to constructIDEUrl.
LineArgs == {0, 9}

ColumnArgs == {0, 5}

\* The arguments of a direct call of constructIDEUrl.
UrlCalls ==
    {[fn |-> "constructIDEUrl", done |-> FALSE, filePath |-> f, line |-> l,
      column |-> c, ideType |-> t, projectName |-> j,
      ret |-> [threw |-> FALSE, url |-> <<>>]] :
        f \in NameStrings, l \in LineArgs, c \in ColumnArgs, t \in IdeTypes,
        j \in NameStrings}

\* constructIDEUrl(filePath, line, column, ideType, projectName) called
\* directly.
CallConstructIDEUrl ==
    /\ call.fn = "constructIDEUrl"
    /\ ~call.done
    /\ call' = [call EXCEPT
                  !.done = TRUE,
                  !.ret = constructIDEUrl(call.filePath, call.line, call.column,
                                          call.ideType, call.projectName)]
    /\ UNCHANGED PageVars

\* Values of window.location.pathname when extractProjectName is called.
PathAlphabet == {"/", "a", "b"}

PathStrings == {p \in StringsUpTo(PathAlphabet, MaxPathLen) : p = <<>> \/ Head(p) = "/"}

\* The arguments of a direct call of extractProjectName (the page's path).
ProjectNameCalls ==
    {[fn |-> "extractProjectName", done |-> FALSE, pathname |-> p, ret |-> <<>>] :
        p \in PathStrings}

\* extractProjectName() called directly.
CallExtractProjectName ==
    /\ call.fn = "extractProjectName"
    /\ ~call.done
    /\ call' = [call EXCEPT !.done = TRUE, !.ret = extractProjectName(call.pathname)]
    /\ UNCHANGED PageVars

\* Instants handed to formatDateTime, and the viewer's zones (minutes east of
\* UTC).
Years == {999, 1000, 2024, 9999}

Months == {1, 2, 12}

Days == {1, 28, 29, 31}

Hours == {0, 10, 23}

Minutes == {0, 30, 59}

Seconds == {0, 45}

TimeZones == {-300, -210, 0, 330}

\* The year of an ISO-8601 string: four digits.
PadStart4(n) ==
    IF n < 10 THEN <<"0", "0", "0">> \o NatStr(n)
    ELSE IF n < 100 THEN <<"0", "0">> \o NatStr(n)
    ELSE IF n < 1000 THEN <<"0">> \o NatStr(n)
    ELSE NatStr(n)

\* Date.prototype.toISOString without the milliseconds.
IsoString(y, m, d, h, mi, sec) ==
    PadStart4(y) \o <<"-">> \o PadStart2(m) \o <<"-">> \o PadStart2(d) \o <<"T">>
    \o PadStart2(h) \o <<":">> \o PadStart2(mi) \o <<":">> \o PadStart2(sec) \o <<"Z">>

\* The calendar days among them.
Dates == {ymd \in Years \X Months \X Days : ymd[3] <= DaysInMonth(ymd[1], ymd[2])}

\* The arguments of a direct call of formatDateTime, and the zone it runs in.
FormatCalls ==
    {[fn |-> "formatDateTime", done |-> FALSE,
      isoString |-> IsoString(ymd[1], ymd[2], ymd[3], h, mi, sec), tz |-> tz,
      ret |-> <<>>, again |-> <<>>] :
        ymd \in Dates, h \in Hours, mi \in Minutes, sec \in Seconds, tz \in TimeZones}

\* formatDateTime(isoString) called directly, twice.
CallFormatDateTime ==
    /\ call.fn = "formatDateTime"
    /\ ~call.done
    /\ call' = [call EXCEPT !.done = TRUE,
                             !.ret = formatDateTime(call.isoString, call.tz),
                             !.again = formatDateTime(call.isoString, call.tz)]
    /\ UNCHANGED PageVars

\* The exported pure functions called directly on arbitrary arguments.
PureNext ==
    \/ CallExtractLineNumber
    \/ CallConstructIDEUrl
    \/ CallExtractProjectName
    \/ CallFormatDateTime

\* One direct call per behaviour, its arguments chosen at the start.
PureInit ==
    /\ PageInit
    /\ OptionsClosed
    /\ zone = 0
    /\ call \in LineNumberCalls \cup UrlCalls \cup ProjectNameCalls \cup FormatCalls

PureSpec == PureInit /\ [][PureNext]_vars

\* Project names handed to injectButtons when it is called directly.
DirectProjects == {<<>>, <<"r">>}

\* injectButtons(ideType, projectName) called on the page as it stands, as the
\* module's callers other than init and the observer may.
CallInjectButtons ==
    /\ \E ideType \in {DefaultIde}, projectName \in DirectProjects :
         \E W \in {injectButtons(World, ideType, projectName)} :
            /\ Commit(W, "injectButtons", <<>>)
            /\ call' = [fn |-> "injectButtons", ideType |-> ideType,
                        projectName |-> projectName]
            /\ qT' = Notify(qT, obsT, W.recs)
            /\ qI' = Notify(qI, obsI, W.recs)
    /\ UNCHANGED <<text, pathname, zone, OptionsVars, storage, settings, pcT, pcI, cfg, obsT, obsI, hostOps>>

\* findReviewCommentBlocks() called on the page as it stands; what it returns
\* is kept in the step's record.
CallFindReviewCommentBlocks ==
    /\ \E blocks \in {findReviewCommentBlocks(World)} :
         Commit([World EXCEPT !.scans = @ \cup {"ide"}, !.found = <<blocks>>],
                "findReviewCommentBlocks", <<>>)
    /\ UNCHANGED <<text, pathname, zone, OptionsVars, storage, call, settings, pcT, pcI, cfg, obsT, obsI, qT, qI,
                   hostOps>>

\* The deep-link script on a live page, with injectButtons and
\* findReviewCommentBlocks also called directly.
DirectNext ==
    \/ IdeInitStart
    \/ IdeConfigResolved
    \/ IdeConfigRejected
    \/ IdeObserverCallback
    \/ HostAttach
    \/ HostDetach
    \/ HostSetText
    \/ CallInjectButtons
    \/ CallFindReviewCommentBlocks

DirectSpec == Init /\ [][DirectNext]_vars

\* The relative-time elements a caller may hold, in the document or not.
TimeElements == {n \in HostNodes : tagName(n) = "RELATIVE-TIME"}

\* processRelativeTime(el) called on an element as it stands.
CallProcessRelativeTime ==
    /\ \E el \in TimeElements, F \in FaultChoices :
         \E W \in {TimeCall(World, el, F)} :
            /\ Commit(W, "processRelativeTime", <<>>)
            /\ qT' = Notify(qT, obsT, W.recs)
            /\ qI' = Notify(qI, obsI, W.recs)
    /\ UNCHANGED <<text, pathname, zone, OptionsVars, storage, call, settings, pcT, pcI, cfg, obsT, obsI, hostOps>>

\* Viewers in several zones open the page.
LabelInit == PageInit /\ zone \in TimeZones /\ call = NoCall /\ OptionsClosed

\* processRelativeTime called directly on the elements of a live page.
LabelNext ==
    \/ HostAttach
    \/ HostDetach
    \/ CallProcessRelativeTime

LabelSpec == LabelInit /\ [][LabelNext]_vars

\* Both scripts on a live page while settings are saved.
SettingsNext == Next \/ SettingsSaved

SettingsSpec == Init /\ [][SettingsNext]_vars

\* Fragments the host appends to body and removes again in the same task.
Fleeting == {"t2", "f1"}

\* body.appendChild(n); n.remove() in one task: the record of the addition is
\* delivered when n is out of the tree again.
HostFlash ==
    \E n \in Fleeting : \E p \in {"body"} :
        /\ Detached(n)
        /\ HostRecord(p, <<n>>)
        /\ HostStep("hostFlash")
        /\ UNCHANGED <<kids, text>>

\* Both scripts on a live page whose host adds fragments, also fleetingly, and
\* fills in an anchor's text.
RetryNext ==
    \/ TimeInitStart
    \/ TimeConfigResolved
    \/ TimeObserverCallback
    \/ IdeInitStart
    \/ IdeConfigResolved
    \/ IdeObserverCallback
    \/ HostAttach
    \/ HostSetText
    \/ HostFlash

\* A page whose path names a project, so that both features can run.
RetryInit == Init /\ extractProjectName(pathname) # <<>>

RetrySpec == RetryInit /\ [][RetryNext]_vars


\* A host re-render around a candidate the page has annotated: the host takes
\* the candidate's companions out of the tree (companion.remove()), or removes
\* its processed marker (removeAttribute), or both, in one task.  A removal's
\* record lists no added node, and attribute changes are not observed.
HostRerender ==
    \E c \in TimeElements \cup Anchors, remove \in BOOLEAN, strip \in BOOLEAN :
        /\ remove \/ strip
        /\ remove => \E k \in LabelIds \cup ButtonIds : owner[k] = c /\ ~Detached(k)
        /\ strip => c \in gh \cup ide
        /\ hostOps < MaxHostOps
        /\ hostOps' = hostOps + 1
        /\ kids' = IF remove
                   THEN [p \in Nodes |->
                           SelectSeq(kids[p],
                                     LAMBDA n : ~(n \in LabelIds \cup ButtonIds /\ owner[n] = c))]
                   ELSE kids
        /\ gh' = IF strip THEN gh \ {c} ELSE gh
        /\ ide' = IF strip THEN ide \ {c} ELSE ide
        /\ last' = [op |-> "hostRerender", batch |-> <<>>, tcalls |-> <<>>, bcalls |-> <<>>,
                    found |-> <<>>, log |-> <<>>, threw |-> FALSE]
        /\ UNCHANGED <<text, nl, nb, owner, url, ltext, pathname, zone, OptionsVars, storage, call,
                       settings, pcT, pcI, cfg, obsT, obsI, qT, qI, scanned, missed>>

\* processRelativeTime and injectButtons called on a page whose host attaches
\* fragments and re-renders around annotated candidates.
RerenderNext ==
    \/ HostAttach
    \/ HostRerender
    \/ CallProcessRelativeTime
    \/ CallInjectButtons

RerenderSpec == RetryInit /\ [][RerenderNext]_vars


\* Both scripts on a page whose host attaches fragments and fills in an
\* anchor's text, and then leaves the page alone.
FeedbackNext ==
    \/ TimeInitStart
    \/ TimeConfigResolved
    \/ TimeObserverCallback
    \/ IdeInitStart
    \/ IdeConfigResolved
    \/ IdeObserverCallback
    \/ HostAttach
    \/ HostSetText

\* The browser delivers queued mutation records: weak fairness of
\* TimeObserverCallback, its enabling condition written out (an observer is
\* registered and records are waiting) and its steps told by the history.
TimeRecordsDelivered ==
    \/ []<>(obsT = 0 \/ qT = <<>>)
    \/ []<><<last'.op = "timeCallback">>_vars

\* The same for IdeObserverCallback.
IdeRecordsDelivered ==
    \/ []<>(obsI = 0 \/ qI = <<>>)
    \/ []<><<last'.op = "ideCallback">>_vars

FeedbackSpec ==
    /\ RetryInit
    /\ [][FeedbackNext]_vars
    /\ TimeRecordsDelivered
    /\ IdeRecordsDelivered


\* ------------------------------------------------------------- options page steps
\* User events the options page receives in one behaviour.
MaxEvents == 2

\* What the user types into the domain field.
DomainInputs ==
    {<<"a", ".", "i", "o">>, <<" ", "A", ".", "I", "o", " ">>, <<"b", ".", "i", "o">>,
     <<" ">>, <<"a", ".", ".", "i", "o">>}

\* What chrome.storage.sync holds when the options page opens: nothing, or the
\* settings an earlier visit has saved.
StoredAtOpen ==
    {EmptySync,
     [enableAbsoluteTime |-> <<TRUE>>,
      customDomains |-> << <<(<<"a", ".", "i", "o">>), (<<"b", ".", "i", "o">>)>> >>]}

\* Everything the content scripts own.
ContentVars ==
    <<kids, text, gh, ide, nl, nb, owner, url, ltext, pathname, zone, storage, settings, pcT, pcI,
      cfg, obsT, obsI, qT, qI, scanned, missed, hostOps, call, last>>

\* The options page is about to be opened.
OptionsInit ==
    /\ PageInit
    /\ zone = 0
    /\ call = NoCall
    /\ extractProjectName(pathname) # <<>>
    /\ sync \in StoredAtOpen
    /\ defaultSettings = DefaultSettings
    /\ page = "closed"
    /\ enableAbsoluteTime = FALSE
    /\ customDomainsList = <<>>
    /\ customDomainInput = <<>>
    /\ statusMessage = [textContent |-> "", type |-> "", show |-> FALSE, timer |-> 0,
                        cleared |-> 0]
    /\ statusTimeout = 0
    /\ timers = {}
    /\ tasks = <<>>
    /\ act = NoAct

\* The script and the document after a handler has run up to its next await.
CommitOptions(O, op, k, ok) ==
    /\ defaultSettings' = O.defaultSettings
    /\ customDomainsList' = O.customDomainsList
    /\ customDomainInput' = O.customDomainInput
    /\ statusMessage' = O.statusMessage
    /\ statusTimeout' = O.statusTimeout
    /\ timers' = O.timers
    /\ act' = [op |-> op, task |-> k, ok |-> ok, timer |-> 0]

\* No handler call waits at an await.
Idle == \A k \in 1..Len(tasks) : tasks[k].pc = "done"

\* DOMContentLoaded: loadSettings() starts its read.
OptionsOpen ==
    /\ page = "closed"
    /\ page' = "loading"
    /\ CommitOptions(OptionsPage, "open", 0, TRUE)
    /\ UNCHANGED <<sync, enableAbsoluteTime, tasks, ContentVars>>

\* loadSettings() after its read has resolved or rejected, then
\* setupEventListeners().
LoadSettingsDone ==
    \E ok \in BOOLEAN :
        /\ page = "loading"
        /\ page' = "ready"
        /\ LET result == StorageGet(sync, defaultSettings)
           IN IF ok
              THEN /\ enableAbsoluteTime' = result.enableAbsoluteTime
                   /\ CommitOptions(renderDomainList(OptionsPage, result.customDomains),
                                    "loadSettings", 0, TRUE)
              ELSE /\ enableAbsoluteTime' = enableAbsoluteTime
                   /\ CommitOptions(showStatus(OptionsPage, "Error loading settings", "error"),
                                    "loadSettings", 0, FALSE)
        /\ UNCHANGED <<sync, tasks, ContentVars>>

\* The user flips the checkbox: the change listener calls
\* saveSettings({enableAbsoluteTime: checked}), which starts its read.
ToggleChange ==
    /\ page = "ready"
    /\ Len(tasks) < MaxEvents
    /\ enableAbsoluteTime' = ~enableAbsoluteTime
    /\ tasks' = Append(tasks, [NewTask("toggle") EXCEPT !.pc = "get2",
                                                        !.partial = <<~enableAbsoluteTime>>])
    /\ CommitOptions(OptionsPage, "change", Len(tasks) + 1, TRUE)
    /\ UNCHANGED <<sync, page, ContentVars>>

\* The user types v and clicks Add or presses Enter: addDomain() up to its
\* return or to await getSettings().
AddClick ==
    \E v \in DomainInputs :
        /\ page = "ready"
        /\ Len(tasks) < MaxEvents
        /\ LET domain == toLowerCase(Trim(v))
               O == [OptionsPage EXCEPT !.customDomainInput = v]
               k == Len(tasks) + 1
           IN IF domain = <<>>
              THEN /\ tasks' = Append(tasks, NewTask("add"))
                   /\ CommitOptions(showStatus(O, "Please enter a domain", "error"),
                                    "click", k, FALSE)
              ELSE IF ~isValidDomain(domain)
              THEN /\ tasks' = Append(tasks, [NewTask("add") EXCEPT !.domain = domain])
                   /\ CommitOptions(showStatus(O, "Invalid domain format", "error"),
                                    "click", k, FALSE)
              ELSE /\ tasks' = Append(tasks, [NewTask("add") EXCEPT !.pc = "get1",
                                                                   !.domain = domain])
                   /\ CommitOptions(O, "click", k, TRUE)
        /\ UNCHANGED <<sync, page, enableAbsoluteTime, ContentVars>>

\* The user clicks the Remove button of the i-th rendered item:
\* removeDomain(i - 1) up to await getSettings().
RemoveClick ==
    \E i \in 1..Len(customDomainsList) :
        /\ page = "ready"
        /\ Len(tasks) < MaxEvents
        /\ tasks' = Append(tasks, [NewTask("remove") EXCEPT !.pc = "get1", !.index = i - 1,
                                                            !.shown = customDomainsList[i]])
        /\ CommitOptions(OptionsPage, "click", Len(tasks) + 1, TRUE)
        /\ UNCHANGED <<sync, page, enableAbsoluteTime, ContentVars>>

\* getSettings() has its answer: the stored settings, or the defaultSettings
\* object itself when the read was rejected. addDomain() and removeDomain()
\* go on to saveSettings(), which starts its own read.
GetSettingsDone ==
    \E k \in 1..Len(tasks), ok \in BOOLEAN :
        /\ tasks[k].pc = "get1"
        /\ LET t == tasks[k]
               cur == IF ok THEN StorageGet(sync, defaultSettings).customDomains
                      ELSE defaultSettings.customDomains
               changed == IF t.kind = "add" THEN Append(cur, t.domain)
                          ELSE Splice(cur, t.index)
           IN IF t.kind = "add" /\ ArrayIncludes(cur, t.domain)
              THEN /\ tasks' = [tasks EXCEPT ![k] = [t EXCEPT !.pc = "done", !.alias = ~ok,
                                                            !.domains = IF ok THEN cur ELSE <<>>]]
                   /\ CommitOptions(showStatus(OptionsPage, "Domain already exists", "error"),
                                    "getSettings", k, ok)
              ELSE /\ tasks' = [tasks EXCEPT ![k] = [t EXCEPT !.pc = "get2", !.alias = ~ok,
                                                            !.domains = IF ok THEN changed
                                                                        ELSE <<>>]]
                   /\ CommitOptions(IF ok THEN OptionsPage
                                    ELSE [OptionsPage EXCEPT
                                              !.defaultSettings.customDomains = changed],
                                    "getSettings", k, ok)
        /\ UNCHANGED <<sync, page, enableAbsoluteTime, ContentVars>>

\* The caller of saveSettings() after saveSettings() has returned.
AfterSave(O, t) ==
    IF t.kind = "toggle" THEN O
    ELSE IF t.kind = "remove" THEN renderDomainList(O, DomainsOf(O, t))
    ELSE [renderDomainList(O, DomainsOf(O, t)) EXCEPT !.customDomainInput = <<>>]

\* Where that caller waits next: addDomain() asks for the host permission.
AfterSavePc(t) == IF t.kind = "add" THEN "perm" ELSE "done"

\* saveSettings(partialSettings) has the answer to its read: it merges and
\* starts the write, or reports the error and returns.
SaveReadDone ==
    \E k \in 1..Len(tasks), ok \in BOOLEAN :
        /\ tasks[k].pc = "get2"
        /\ LET t == tasks[k]
               currentSettings == StorageGet(sync, defaultSettings)
               newSettings ==
                   IF t.kind = "toggle"
                   THEN [currentSettings EXCEPT !.enableAbsoluteTime = t.partial[1]]
                   ELSE [currentSettings EXCEPT !.customDomains = DomainsOf(OptionsPage, t)]
           IN IF ok
              THEN /\ tasks' = [tasks EXCEPT ![k] = [t EXCEPT !.pc = "set",
                                                            !.newSettings = <<newSettings>>]]
                   /\ CommitOptions(OptionsPage, "saveRead", k, TRUE)
              ELSE /\ tasks' = [tasks EXCEPT ![k] = [t EXCEPT !.pc = AfterSavePc(t)]]
                   /\ CommitOptions(AfterSave(showStatus(OptionsPage, "Error saving settings",
                                                         "error"), t),
                                    "saveRead", k, FALSE)
        /\ UNCHANGED <<sync, page, enableAbsoluteTime, ContentVars>>

\* saveSettings(partialSettings) has the answer to its write: it reports
\* success or the error and returns.
SaveWriteDone ==
    \E k \in 1..Len(tasks), ok \in BOOLEAN :
        /\ tasks[k].pc = "set"
        /\ LET t == tasks[k]
           IN /\ sync' = IF ok THEN StorageSet(sync, t.newSettings[1]) ELSE sync
              /\ tasks' = [tasks EXCEPT ![k] = [t EXCEPT !.pc = AfterSavePc(t), !.saved = ok]]
              /\ CommitOptions(AfterSave(IF ok
                                         THEN showStatus(OptionsPage, "Settings saved!", "success")
                                         ELSE showStatus(OptionsPage, "Error saving settings",
                                                         "error"), t),
                               "saveWrite", k, ok)
        /\ UNCHANGED <<page, enableAbsoluteTime, ContentVars>>

\* chrome.permissions.request() has resolved or rejected: addDomain() returns.
PermissionAnswered ==
    \E k \in 1..Len(tasks) :
        /\ tasks[k].pc = "perm"
        /\ tasks' = [tasks EXCEPT ![k].pc = "done"]
        /\ CommitOptions(OptionsPage, "permission", k, TRUE)
        /\ UNCHANGED <<sync, page, enableAbsoluteTime, ContentVars>>

\* A pending timer of showStatus() fires: the status element loses its show
\* class.
StatusTimerFires ==
    \E id \in timers :
        /\ timers' = timers \ {id}
        /\ statusMessage' = [statusMessage EXCEPT !.show = FALSE]
        /\ act' = [op |-> "timer", task |-> 0, ok |-> TRUE, timer |-> id]
        /\ UNCHANGED <<sync, defaultSettings, page, enableAbsoluteTime, customDomainsList,
                       customDomainInput, statusTimeout, tasks, ContentVars>>

\* The options page with a user who does not wait for an operation to finish.
OptionsNext ==
    \/ OptionsOpen
    \/ LoadSettingsDone
    \/ ToggleChange
    \/ AddClick
    \/ RemoveClick
    \/ GetSettingsDone
    \/ SaveReadDone
    \/ SaveWriteDone
    \/ PermissionAnswered
    \/ StatusTimerFires

OptionsSpec == OptionsInit /\ [][OptionsNext]_vars

\* The same events while no earlier operation is under way.
ToggleChangeAlone == Idle /\ ToggleChange

AddClickAlone == Idle /\ AddClick

RemoveClickAlone == Idle /\ RemoveClick

\* The options page with a user who lets each operation finish.
SequentialNext ==
    \/ OptionsOpen
    \/ LoadSettingsDone
    \/ ToggleChangeAlone
    \/ AddClickAlone
    \/ RemoveClickAlone
    \/ GetSettingsDone
    \/ SaveReadDone
    \/ SaveWriteDone
    \/ PermissionAnswered
    \/ StatusTimerFires

SequentialSpec == OptionsInit /\ [][SequentialNext]_vars

\* ------------------------------------------------------------- properties
Companions == LabelIds \cup ButtonIds

\* The companions inserted so far for candidate c.
CompanionsOf(c) == {k \in Companions : owner[k] = c}

TimeSteps == {"timeResolved", "timeCallback"}

IdeSteps == {"ideResolved", "ideCallback"}

RECURSIVE SumLen(_)
SumLen(ss) == IF ss = <<>> THEN 0 ELSE Len(Head(ss)) + SumLen(Tail(ss))

\* A call of processRelativeTime that found its element unmarked, dated,
\* with both ancestors, and in which nothing threw.
Eligible(r) ==
    ~r.marked /\ r.dated /\ r.hasGrand /\ ~r.createThrows /\ ~r.insertThrows

\* A call of processRelativeTime in which a statement of the try block threw.
Thrown(r) ==
    ~r.marked /\ r.dated /\ (r.createThrows \/ (r.hasGrand /\ r.insertThrows))

\* C1: after a step that ran the full-document pass, once or several times in
\* a row with no host mutation in between, every candidate the pass annotated
\* has exactly one companion, and the passes after the first inserted nothing.
C1_FullPassTwiceOneCompanion ==
    /\ last.op \in IdeSteps =>
         /\ \A i \in 1..Len(last.bcalls) :
              last.bcalls[i].inserted = 1 =>
                  Cardinality(CompanionsOf(last.bcalls[i].anchor)) = 1
         /\ last.found # <<>> =>
              \A i \in 1..Len(last.bcalls) :
                  i > Len(last.found[1]) => last.bcalls[i].inserted = 0
    /\ last.op = "timeResolved" =>
         \A i \in 1..Len(last.tcalls) :
             last.tcalls[i].inserted = 1 =>
                 Cardinality(CompanionsOf(last.tcalls[i].el)) = 1

\* C2: whatever the interleaving of the initial passes and the observer
\* callbacks, no candidate has received more than one companion.
C2_AtMostOneCompanion ==
    \A c \in HostNodes : Cardinality(CompanionsOf(c)) <= 1

\* C3: a candidate carries its processed marker only if a companion was
\* inserted for it, and a call sets the marker only when that same call
\* inserted the companion: never where insertion was skipped, logged a
\* warning or an error, or threw.
C3_MarkerOnlyAfterInsertion ==
    /\ \A c \in gh : \E k \in LabelIds : owner[k] = c
    /\ \A c \in ide : \E k \in ButtonIds : owner[k] = c
    /\ \A i \in 1..Len(last.tcalls) :
         (last.tcalls[i].marks /\ ~last.tcalls[i].marked) =>
             /\ last.tcalls[i].inserted = 1
             /\ last.tcalls[i].warns = 0
             /\ last.tcalls[i].errors = 0
             /\ ~last.tcalls[i].threw
    /\ \A i \in 1..Len(last.bcalls) :
         (last.bcalls[i].marks /\ ~last.bcalls[i].marked) =>
             (last.bcalls[i].inserted = 1 /\ ~last.bcalls[i].threw)

\* One step in which one call inserted and marked and another call failed
\* and left its element unmarked.
C3_Witness ==
    /\ \E i \in 1..Len(last.tcalls) :
         last.tcalls[i].inserted = 1 /\ last.tcalls[i].marks /\ ~last.tcalls[i].marked
    /\ \E j \in 1..Len(last.tcalls) :
         last.tcalls[j].warns + last.tcalls[j].errors > 0 /\ ~last.tcalls[j].marks
    /\ ide # {}

\* C4: processRelativeTime on an unmarked element with a datetime whose parent
\* is absent, or whose parent has no parent, inserts no label, does not set
\* the marker, logs exactly one warning and returns normally (the label having
\* been built without an exception).
C4_MissingAncestorWarns ==
    \A i \in 1..Len(last.tcalls) :
        (/\ ~last.tcalls[i].marked
         /\ last.tcalls[i].dated
         /\ ~last.tcalls[i].hasGrand
         /\ ~last.tcalls[i].createThrows) =>
            /\ last.tcalls[i].inserted = 0
            /\ ~last.tcalls[i].marks
            /\ last.tcalls[i].warns = 1
            /\ last.tcalls[i].errors = 0
            /\ ~last.tcalls[i].threw
            /\ last.tcalls[i].el \notin gh

\* A callback that processed an element that has no parent.
C4_Witness ==
    \E i \in 1..Len(last.tcalls) :
        /\ ~last.tcalls[i].marked
        /\ last.tcalls[i].dated
        /\ ~last.tcalls[i].hasParent
        /\ ~last.tcalls[i].createThrows
        /\ last.tcalls[i].warns = 1

\* A callback that processed an element whose parent has no parent.
C4_WitnessGrandparent ==
    \E i \in 1..Len(last.tcalls) :
        /\ ~last.tcalls[i].marked
        /\ last.tcalls[i].dated
        /\ last.tcalls[i].hasParent
        /\ ~last.tcalls[i].hasGrand
        /\ last.tcalls[i].warns = 1

\* C5: when a statement of processRelativeTime's try block throws (creating
\* the element, or insertBefore), the exception is caught and logged as one
\* error, the marker is not set, nothing is inserted and no exception reaches
\* the caller.
C5_ExceptionCaughtAndLogged ==
    /\ last.op \in TimeSteps => ~last.threw
    /\ \A i \in 1..Len(last.tcalls) :
         /\ ~last.tcalls[i].threw
         /\ Thrown(last.tcalls[i]) =>
              /\ last.tcalls[i].errors = 1
              /\ last.tcalls[i].warns = 0
              /\ last.tcalls[i].inserted = 0
              /\ ~last.tcalls[i].marks

\* One pass in which createElement threw for one element and insertBefore
\* threw for another.
C5_Witness ==
    /\ \E i \in 1..Len(last.tcalls) :
         last.tcalls[i].createThrows /\ Thrown(last.tcalls[i])
    /\ \E j \in 1..Len(last.tcalls) :
         ~last.tcalls[j].createThrows /\ Thrown(last.tcalls[j])

\* The relative-time elements a label step covers: those of the document for
\* the initial pass, those in the added subtrees for a callback.
TimeScope ==
    IF last.op = "timeResolved"
    THEN IF pcT = "watching" THEN Range(querySelectorAll(kids, "doc", "RELATIVE-TIME"))
         ELSE {}
    ELSE IF last.op = "timeCallback"
    THEN UNION {UNION {(IF tagName(last.batch[m][j]) = "RELATIVE-TIME"
                        THEN {last.batch[m][j]} ELSE {})
                       \cup (IF IsElement(last.batch[m][j])
                             THEN Range(querySelectorAll(kids, last.batch[m][j],
                                                         "RELATIVE-TIME"))
                             ELSE {})
                       : j \in 1..Len(last.batch[m])}
                : m \in 1..Len(last.batch)}
    ELSE {}

\* C6: in a label pass (the initial pass or one observer callback), whatever
\* candidates fail, every relative-time element the pass covers is handed to
\* processRelativeTime, and every one that is eligible is annotated and
\* marked.
C6_FailureDoesNotStopOthers ==
    /\ \A t \in TimeScope : \E i \in 1..Len(last.tcalls) : last.tcalls[i].el = t
    /\ last.op \in TimeSteps =>
         \A i \in 1..Len(last.tcalls) :
             Eligible(last.tcalls[i]) =>
                 /\ last.tcalls[i].inserted = 1
                 /\ last.tcalls[i].marks
                 /\ last.tcalls[i].el \in gh

\* A pass in which an element failed and a later one was annotated.
C6_Witness ==
    \E i \in 1..Len(last.tcalls), j \in 1..Len(last.tcalls) :
        /\ i < j
        /\ last.tcalls[i].warns + last.tcalls[i].errors > 0
        /\ Eligible(last.tcalls[j])
        /\ last.tcalls[j].inserted = 1

\* C7: in an injectButtons pass, an exception raised for one block leaves
\* neither the loop body, injectButtons nor the observer callback, and every
\* block the pass located gets its round of the loop.
C7_BlockFailureIsLocal ==
    last.op \in IdeSteps =>
        /\ ~last.threw
        /\ \A i \in 1..Len(last.bcalls) : ~last.bcalls[i].threw
        /\ Len(last.bcalls) = SumLen(last.found)

\* C8: when the read resolves with the enable flag false, init logs and ends
\* for good: no scan, no companion, no marker and no observer, then or later.
DisabledQuiet ==
    /\ settings.enableAbsoluteTime = "false" => pcT = "disabled"
    /\ settings.enableIDEDeepLink = "false" => pcI = "disabled"
    /\ pcT = "disabled" =>
         obsT = 0 /\ nl = 0 /\ gh = {} /\ "time" \notin scanned /\ qT = <<>>
    /\ pcI = "disabled" =>
         obsI = 0 /\ nb = 0 /\ ide = {} /\ "ide" \notin scanned /\ qI = <<>>
    /\ (last.op = "timeResolved" /\ pcT = "disabled") =>
         (CountLog(last.log, "log") = 1 /\ Len(last.log) = 1 /\ ~last.threw)
    /\ (last.op = "ideResolved" /\ pcI = "disabled") =>
         (CountLog(last.log, "log") = 1 /\ Len(last.log) = 1 /\ ~last.threw)

DisabledStays ==
    /\ pcT = "disabled" => pcT' = "disabled"
    /\ pcI = "disabled" => pcI' = "disabled"

C8_DisabledIsTerminal == []DisabledQuiet /\ [][DisabledStays]_vars

\* Both features disabled, and the host has changed the page since.
C8_Witness ==
    /\ pcT = "disabled"
    /\ pcI = "disabled"
    /\ last.op = "hostAttach"
    /\ hostOps = MaxHostOps

\* C9: while init has not been called or its configuration read is pending,
\* the script has searched nothing, inserted nothing and registered no
\* observer.
C9_NothingBeforeReadResolves ==
    /\ pcT \in {"idle", "reading"} =>
         obsT = 0 /\ nl = 0 /\ gh = {} /\ "time" \notin scanned
    /\ pcI \in {"idle", "reading"} =>
         obsI = 0 /\ nb = 0 /\ ide = {} /\ "ide" \notin scanned

\* The absolute-time read is pending while the other script already watches
\* and has annotated the page.
C9_Witness ==
    pcT = "reading" /\ pcI = "watching" /\ nb > 0 /\ hostOps > 0

\* C10: when the configuration store rejects the read, init logs one error
\* and returns: no scan, no companion, no marker, no observer, no exception.
C10_RejectedReadAborts ==
    /\ pcT = "rejected" =>
         obsT = 0 /\ nl = 0 /\ gh = {} /\ "time" \notin scanned
    /\ pcI = "rejected" =>
         obsI = 0 /\ nb = 0 /\ ide = {} /\ "ide" \notin scanned
    /\ last.op = "timeRejected" =>
         /\ pcT = "rejected"
         /\ CountLog(last.log, "error") = 1 /\ Len(last.log) = 1
         /\ ~last.threw
    /\ last.op = "ideRejected" =>
         /\ pcI = "rejected"
         /\ CountLog(last.log, "error") = 1 /\ Len(last.log) = 1
         /\ ~last.threw

\* Both reads rejected, and the host has changed the page since.
C10_Witness ==
    pcT = "rejected" /\ pcI = "rejected" /\ last.op = "hostAttach"

\* C11: with an empty project name nothing is inserted and nothing is marked.
\* injectButtons('', ...) locates no block, runs no round of its loop, logs
\* exactly one warning and leaves the document as it was; init with the
\* feature enabled on a page whose path yields no project name logs exactly
\* one warning, runs no pass, registers no observer, and stays so.
NoProjectQuiet ==
    /\ (last.op = "injectButtons" /\ call.projectName = <<>>) =>
         /\ last.found = <<>>
         /\ last.bcalls = <<>>
         /\ CountLog(last.log, "warn") = 1 /\ Len(last.log) = 1
         /\ ~last.threw
    /\ (settings.enableIDEDeepLink = "true" /\ extractProjectName(pathname) = <<>>) =>
         pcI = "noproject"
    /\ pcI = "noproject" => obsI = 0 /\ qI = <<>>
    /\ (last.op = "ideResolved" /\ pcI = "noproject") =>
         /\ last.found = <<>>
         /\ last.bcalls = <<>>
         /\ CountLog(last.log, "warn") = 1 /\ Len(last.log) = 1
         /\ ~last.threw

NoProjectStep ==
    (\/ last'.op = "injectButtons" /\ call'.projectName = <<>>
     \/ last'.op = "ideResolved" /\ pcI' = "noproject") =>
        /\ kids' = kids /\ nb' = nb /\ ide' = ide /\ url' = url /\ owner' = owner
        /\ obsI' = obsI

C11_NoProjectNoInsertion == []NoProjectQuiet /\ [][NoProjectStep]_vars

\* injectButtons was called with an empty project name on a page that holds
\* an eligible, unmarked block.
C11_Witness ==
    /\ last.op = "injectButtons"
    /\ call.projectName = <<>>
    /\ findReviewCommentBlocks(World) # <<>>
    /\ nb = 0

\* init ended for want of a project name, and the host has changed the page
\* since.
C11_WitnessInit ==
    pcI = "noproject" /\ last.op = "hostAttach" /\ nb = 0

\* C12: once the read has delivered an enabled flag (and, for the deep link,
\* the path yields a project name), init has made one full-document pass and
\* then registered one observer on body: the script is watching with exactly
\* one observer, the pass's own insertions were not reported to that
\* observer, and observers are never taken away afterwards.
EnabledWatches ==
    /\ settings.enableAbsoluteTime = "true" => (pcT = "watching" /\ obsT = 1)
    /\ (settings.enableIDEDeepLink = "true" /\ extractProjectName(pathname) # <<>>) =>
         (pcI = "watching" /\ obsI = 1)
    /\ pcT = "watching" => (obsT = 1 /\ "time" \in scanned)
    /\ pcI = "watching" => (obsI = 1 /\ "ide" \in scanned)
    /\ (last.op = "timeResolved" /\ pcT = "watching") => qT = <<>>
    /\ (last.op = "ideResolved" /\ pcI = "watching") =>
         (qI = <<>> /\ Len(last.found) = 1)

WatchingStays ==
    /\ obsT' >= obsT
    /\ obsI' >= obsI
    /\ pcT = "watching" => pcT' = "watching"
    /\ pcI = "watching" => pcI' = "watching"

C12_EnabledInitWatches == []EnabledWatches /\ [][WatchingStays]_vars

\* C13: an absolute-time observer callback hands to processRelativeTime every
\* added element that is a relative-time element and every relative-time
\* descendant of every added element, and nothing else: each such element
\* that is eligible ends marked with exactly one label, added nodes that are
\* not elements cause no call, and no marker or label appears for an element
\* outside the added subtrees.
AddedSubtreesProcessed ==
    last.op = "timeCallback" =>
        /\ \A t \in TimeScope : \E i \in 1..Len(last.tcalls) : last.tcalls[i].el = t
        /\ \A i \in 1..Len(last.tcalls) :
             /\ last.tcalls[i].el \in TimeScope
             /\ Eligible(last.tcalls[i]) =>
                  /\ last.tcalls[i].inserted = 1
                  /\ last.tcalls[i].el \in gh
                  /\ Cardinality(CompanionsOf(last.tcalls[i].el)) = 1

OnlyAddedSubtreesTouched ==
    last'.op = "timeCallback" =>
        /\ \A c \in gh' \ gh : c \in TimeScope'
        /\ \A k \in LabelIds : owner'[k] # owner[k] => owner'[k] \in TimeScope'
        /\ gh \subseteq gh'

C13_AddedSubtreesProcessed ==
    []AddedSubtreesProcessed /\ [][OnlyAddedSubtreesTouched]_vars

\* A callback for an added container annotated the relative-time element
\* inside it, while an unmarked dated element elsewhere in the document was
\* left as it was.
C13_Witness ==
    /\ last.op = "timeCallback"
    /\ \E m \in 1..Len(last.batch) : last.batch[m] = <<"f1">>
    /\ \E i \in 1..Len(last.tcalls) :
         last.tcalls[i].el = "t3" /\ last.tcalls[i].inserted = 1
    /\ "t1" \notin gh
    /\ "t1" \in Range(querySelectorAll(kids, "doc", "RELATIVE-TIME"))

\* A callback whose batch held a text node and an added relative-time
\* element: the text node caused no call, the element was annotated.
C13_WitnessText ==
    /\ last.op = "timeCallback"
    /\ \E m \in 1..Len(last.batch) : last.batch[m] = <<"ty">>
    /\ \E i \in 1..Len(last.tcalls) :
         last.tcalls[i].el = "t2" /\ last.tcalls[i].inserted = 1

\* The details-collapsible containers in the subtree of an added node.
ContainersIn(node) ==
    {d \in {node} \cup Range(Descendants(kids, node)) :
        tagName(d) = "DETAILS-COLLAPSIBLE"}

\* The blocks (container, first summary, first a.text-mono with a file-link
\* href) inside the subtrees the latest batch reported as added, whatever
\* their markers.
AddedBlocks ==
    UNION {UNION {IF IsElement(last.batch[m][j])
                  THEN UNION {Range(BlockOf([World EXCEPT !.ide = {}], d)) :
                              d \in ContainersIn(last.batch[m][j])}
                  ELSE {}
                  : j \in 1..Len(last.batch[m])}
           : m \in 1..Len(last.batch)}

\* C14: after a deep-link observer callback, every block inside an added
\* subtree whose anchor has a file-link href and non-blank text has a launcher
\* button, inserted for that anchor, as the anchor's next sibling, and the
\* anchor carries the processed marker.
C14_AddedBlocksAnnotated ==
    last.op = "ideCallback" =>
        \A b \in AddedBlocks :
            Trim(text[b.anchor]) # <<>> =>
                /\ b.anchor \in ide
                /\ nextSibling(kids, b.anchor) \in ButtonIds
                /\ owner[nextSibling(kids, b.anchor)] = b.anchor

\* C15 (as stated): a deep-link observer callback inserts a button only for
\* anchors of blocks inside the subtrees its batch reported as added; a block
\* outside them is left as it was.
C15_OnlyAddedSubtrees ==
    last.op = "ideCallback" =>
        \A i \in 1..Len(last.bcalls) :
            last.bcalls[i].inserted > 0 =>
                \E b \in AddedBlocks : b.anchor = last.bcalls[i].anchor

\* An added node for which the deep-link callback calls injectButtons.
Triggers(K, node) ==
    /\ IsElement(node)
    /\ \/ tagName(node) = "DETAILS-COLLAPSIBLE"
       \/ querySelectorAll(K, node, "DETAILS-COLLAPSIBLE") # <<>>

\* C15 (amended): a deep-link observer callback whose batch holds an added
\* element that is or contains a details-collapsible runs injectButtons over
\* the whole document: the blocks it locates are all the unprocessed
\* file-link blocks of the document, inside or outside the added subtrees.  A
\* batch with no such element locates nothing and changes nothing.
FullRescanOnBatch ==
    last'.op = "ideCallback" =>
        IF \E m \in 1..Len(qI) : \E j \in 1..Len(qI[m]) : Triggers(kids, qI[m][j])
        THEN /\ last'.found # <<>>
             /\ last'.found[1] = findReviewCommentBlocks(World)
        ELSE /\ last'.found = <<>>
             /\ last'.bcalls = <<>>
             /\ kids' = kids /\ ide' = ide /\ nb' = nb

C15_FullRescanOnBatch == [][FullRescanOnBatch]_vars

\* A callback annotated a block that lies outside every added subtree of its
\* batch.
C15_Witness ==
    /\ last.op = "ideCallback"
    /\ \E i \in 1..Len(last.bcalls) :
         /\ last.bcalls[i].inserted = 1
         /\ ~\E b \in AddedBlocks : b.anchor = last.bcalls[i].anchor

\* A string that denotes an integer: an optional sign and decimal digits, with
\* white space allowed around them.
IsNumeral(s) ==
    LET t == Trim(s)
        u == IF t # <<>> /\ Head(t) \in {"-", "+"} THEN Tail(t) ELSE t
    IN u # <<>> /\ \A i \in 1..Len(u) : IsDigit(u[i])

RECURSIVE Pow10(_)
Pow10(k) == IF k = 0 THEN 1 ELSE 10 * Pow10(k - 1)

\* The integer a numeral denotes.
NumeralValue(s) ==
    LET t == Trim(s)
        u == IF Head(t) \in {"-", "+"} THEN Tail(t) ELSE t
        Abs(d) == IF d = <<>> THEN 0
                  ELSE LET S[i \in 0..Len(d)] ==
                               IF i = 0 THEN 0
                               ELSE S[i - 1] + DigitVal(d[i]) * Pow10(Len(d) - i)
                       IN S[Len(d)]
    IN IF Head(t) = "-" THEN 0 - Abs(u) ELSE Abs(u)

\* The longest prefix of s that is a numeral (<<>> when there is none).
LeadingNumeral(s) ==
    LET ls == {k \in 1..Len(s) : IsNumeral(SubSeq(s, 1, k)) /\ s[k] \notin Whitespace}
    IN IF ls = {} THEN <<>>
       ELSE SubSeq(s, 1, CHOOSE k \in ls : \A j \in ls : j <= k)

LineNumberReturned == call.fn = "extractLineNumber" /\ call.done

CellRead == LineNumberReturned /\ call.container \in {"one", "two"}

\* C16 (as stated): extractLineNumber returns n-1 when the first line-number
\* cell holds an integer n >= 1, and 0 when n <= 0, when the attribute is not
\* a number, when there is no cell or no container; never a negative number.
C16_LineNumberZeroBased ==
    LineNumberReturned =>
        /\ call.ret >= 0
        /\ call.container \in {"absent", "nocell"} => call.ret = 0
        /\ (CellRead /\ IsNumeral(call.attr)) =>
             call.ret = Max(0, NumeralValue(call.attr) - 1)
        /\ (CellRead /\ ~IsNumeral(call.attr)) => call.ret = 0

\* C16 (amended): as stated, except that an attribute is read as parseInt
\* reads it: when it begins, after white space, with an integer n followed by
\* other characters, the result is max(0, n-1); it is 0 only when the
\* attribute does not begin with an integer.
C16_LineNumberLeadingInteger ==
    LineNumberReturned =>
        /\ call.ret >= 0
        /\ call.container \in {"absent", "nocell"} => call.ret = 0
        /\ (CellRead /\ LeadingNumeral(call.attr) # <<>>) =>
             call.ret = Max(0, NumeralValue(LeadingNumeral(call.attr)) - 1)
        /\ (CellRead /\ LeadingNumeral(call.attr) = <<>>) => call.ret = 0

\* The first of two cells held a number of two digits followed by a letter,
\* and the result was that number less one.
C16_Witness ==
    /\ LineNumberReturned
    /\ call.container = "two"
    /\ call.attr = <<"1", "2", "a">>
    /\ call.ret = 11

\* Number of places at which sub occurs in s.
Occurrences(s, sub) ==
    Cardinality({i \in 1..(Len(s) - Len(sub) + 1) : SubSeq(s, i, i + Len(sub) - 1) = sub})

\* Position of the first c in s (0 when there is none).
FirstIndex(s, c) ==
    IF c \in Range(s) THEN CHOOSE i \in 1..Len(s) : s[i] = c /\ \A j \in 1..(i - 1) : s[j] # c
    ELSE 0

UrlReturned == call.fn = "constructIDEUrl" /\ call.done

UrlArgsEmpty == call.filePath = <<>> \/ call.projectName = <<>>

\* C17 (as stated): constructIDEUrl returns the empty string exactly when
\* filePath or projectName is empty; for every other input the result holds
\* the percent-encoded filePath at exactly one place and the percent-encoded
\* project at exactly one place.
C17_EncodedOnceEach ==
    UrlReturned =>
        /\ (~call.ret.threw /\ call.ret.url = <<>>) <=> UrlArgsEmpty
        /\ ~UrlArgsEmpty =>
             /\ ~call.ret.threw
             /\ Occurrences(call.ret.url, encodeURIComponent(call.filePath)) = 1
             /\ Occurrences(call.ret.url, encodeURIComponent(call.projectName)) = 1

\* C17 (amended): constructIDEUrl returns the empty string exactly when
\* filePath or projectName is empty.  For every other input it throws when
\* either string holds a lone surrogate, and otherwise returns a URL whose
\* query is project=<encoded project>&path=<encoded filePath>:<line>:<column>:
\* each encoded value fills its own parameter, once (the same characters may
\* occur elsewhere in the URL as well).
C17_EncodedInOwnParameter ==
    UrlReturned =>
        /\ (~call.ret.threw /\ call.ret.url = <<>>) <=> UrlArgsEmpty
        /\ (~UrlArgsEmpty /\ (EncodeThrows(call.filePath) \/ EncodeThrows(call.projectName)))
             => call.ret.threw
        /\ (~UrlArgsEmpty /\ ~EncodeThrows(call.filePath) /\ ~EncodeThrows(call.projectName))
             => LET u == call.ret.url
                    q == FirstIndex(u, "?")
                    amp == FirstIndex(u, "&")
                IN /\ ~call.ret.threw
                   /\ 0 < q /\ q < amp
                   /\ Occurrences(u, <<"?">>) = 1
                   /\ Occurrences(u, <<"&">>) = 1
                   /\ SubSeq(u, q + 1, amp - 1)
                        = <<"p", "r", "o", "j", "e", "c", "t", "=">>
                          \o encodeURIComponent(call.projectName)
                   /\ SubSeq(u, amp + 1, Len(u))
                        = <<"p", "a", "t", "h", "=">> \o encodeURIComponent(call.filePath)
                          \o <<":">> \o NatStr(call.line) \o <<":">> \o NatStr(call.column)

\* A URL was returned for a path with a slash and a project whose name also
\* occurs elsewhere in the URL.
C17_Witness ==
    /\ UrlReturned
    /\ call.filePath = <<"a", "/">>
    /\ call.projectName = <<"a">>
    /\ call.ret.url # <<>>
    /\ Occurrences(call.ret.url, <<"a">>) > 2

\* A call with a lone surrogate in the file path threw.
C17_WitnessThrows ==
    UrlReturned /\ call.filePath = <<LoneSurrogate>> /\ call.ret.threw

\* The line the first line-number cell of a container stands for, counted
\* from 0 (0 when the container holds no cell).
ExpectedLine(details) ==
    LET cells == SelectSeq(Descendants(kids, details),
                           LAMBDA n : tagName(n) = "TD" /\ n \in DOMAIN LineNumberAttr)
    IN IF cells = <<>> THEN 0
       ELSE Max(0, NumeralValue(LineNumberAttr[cells[1]]) - 1)

\* The launcher URL for path p at line l with tool t and project j.
ExpectedUrl(p, l, t, j) ==
    <<"j", "e", "t", "b", "r", "a", "i", "n", "s", ":", "/", "/">>
    \o (IF t = <<>> THEN <<"i", "d", "e", "a">> ELSE t)
    \o <<"/", "n", "a", "v", "i", "g", "a", "t", "e", "/", "r", "e", "f", "e", "r", "e", "n", "c", "e">>
    \o <<"?", "p", "r", "o", "j", "e", "c", "t", "=">> \o encodeURIComponent(j)
    \o <<"&", "p", "a", "t", "h", "=">> \o encodeURIComponent(p)
    \o <<":">> \o NatStr(l) \o <<":", "0">>

\* C18: every button a deep-link pass (the initial one or a callback's)
\* inserts navigates to jetbrains://<tool, or idea when none is configured>
\* /navigate/reference?project=<encoded project>&path=<encoded trimmed anchor
\* text>:<max(0, n-1) for the container's first line-number cell n>:0, the
\* column being 0 and the colons after the path literal.
C18_ButtonUrlExact ==
    last.op \in IdeSteps =>
        \A i \in 1..Len(last.bcalls) :
            last.bcalls[i].inserted = 1 =>
                \A b \in ButtonIds :
                    owner[b] = last.bcalls[i].anchor =>
                        url[b] = ExpectedUrl(Trim(text[last.bcalls[i].anchor]),
                                             ExpectedLine(last.bcalls[i].details),
                                             settings.ideType,
                                             extractProjectName(pathname))

\* The block with line cell 10 and text src/file.tsx has its button, for the
\* default tool, and so has the block whose text is surrounded by blanks.
C18_Witness ==
    /\ last.op \in IdeSteps
    /\ \E b \in ButtonIds :
         /\ owner[b] = "a1"
         /\ url[b] = <<"j", "e", "t", "b", "r", "a", "i", "n", "s", ":", "/", "/", "i", "d", "e", "a", "/", "n", "a", "v", "i", "g", "a", "t", "e", "/", "r", "e", "f", "e", "r", "e", "n", "c", "e", "?", "p", "r", "o", "j", "e", "c", "t", "=", "r", "e", "p", "o", "&", "p", "a", "t", "h", "=", "s", "r", "c", "%", "2", "F", "f", "i", "l", "e", ".", "t", "s", "x", ":", "9", ":", "0">>
    /\ \E i \in 1..Len(last.bcalls) :
         last.bcalls[i].anchor = "a2" /\ last.bcalls[i].inserted = 1

\* The segments of a path: the strings between its slashes.
RECURSIVE Split(_)
Split(s) ==
    IF "/" \notin Range(s) THEN <<s>>
    ELSE <<SubSeq(s, 1, FirstIndex(s, "/") - 1)>>
         \o Split(SubSeq(s, FirstIndex(s, "/") + 1, Len(s)))

\* C19: for a path that begins with a slash, extractProjectName returns the
\* second segment when the first two segments are both non-empty
\* (/owner/PROJECT, /owner/PROJECT/...), and the empty string otherwise
\* (/, /owner, /owner/, //x, and the empty path).
C19_SecondSegment ==
    (call.fn = "extractProjectName" /\ call.done) =>
        LET segs == Split(call.pathname)
        IN IF Len(segs) >= 3 /\ segs[2] # <<>> /\ segs[3] # <<>>
           THEN call.ret = segs[3]
           ELSE call.ret = <<>>

\* The project was taken from a path with more segments after it.
C19_Witness ==
    /\ call.fn = "extractProjectName"
    /\ call.done
    /\ call.pathname = <<"/", "a", "/", "b", "/">>
    /\ call.ret = <<"b">>

\* A path with an owner and a trailing slash gave no project.
C19_WitnessEmpty ==
    /\ call.fn = "extractProjectName"
    /\ call.done
    /\ call.pathname = <<"/", "a", "/">>
    /\ call.ret = <<>>

\* s begins with yyyy-MM-dd HH:mm:ss, every field of digits only.
DisplayShaped(s) ==
    /\ Len(s) >= 19
    /\ AllDigits(SubSeq(s, 1, 4)) /\ s[5] = "-"
    /\ AllDigits(SubSeq(s, 6, 7)) /\ s[8] = "-"
    /\ AllDigits(SubSeq(s, 9, 10)) /\ s[11] = " "
    /\ AllDigits(SubSeq(s, 12, 13)) /\ s[14] = ":"
    /\ AllDigits(SubSeq(s, 15, 16)) /\ s[17] = ":"
    /\ AllDigits(SubSeq(s, 18, 19))

\* C20: for every valid instant, whatever its year, formatDateTime's result
\* begins with a year of four digits, a month and a day of two, a blank, and
\* hours, minutes and seconds of two digits each; the time of day shown is
\* the instant's in the viewer's zone; a second call gives the same string.
C20_DisplayTimeShaped ==
    (call.fn = "formatDateTime" /\ call.done) =>
        /\ call.again = call.ret
        /\ DisplayShaped(call.ret)
        /\ DigitsValue(SubSeq(call.ret, 12, 13), 0) * 60
              + DigitsValue(SubSeq(call.ret, 15, 16), 0)
           = (DigitsValue(SubSeq(call.isoString, 12, 13), 0) * 60
              + DigitsValue(SubSeq(call.isoString, 15, 16), 0) + call.tz + 1440) % 1440
        /\ SubSeq(call.ret, 18, 19) = SubSeq(call.isoString, 18, 19)

\* The labels inserted so far.
Labels == {l \in LabelIds : owner[l] # Null}

\* " UTC", the sign and the whole hours of an offset of tz minutes.
OffsetIndicator(tz) ==
    <<" ", "U", "T", "C">> \o (IF tz >= 0 THEN <<"+">> ELSE <<"-">>)
    \o NatStr((IF tz >= 0 THEN tz ELSE 0 - tz) \div 60)

C21_WitnessWest ==
    /\ zone = -300
    /\ \E l \in Labels :
         /\ owner[l] = "t2"
         /\ ltext[l] = <<"2", "0", "2", "4", "-", "0", "1", "-", "0", "5", " ", "0", "3", ":", "0", "5", ":", "0", "3", " ", "U", "T", "C", "-", "5">>

\* The text-mono anchors under a summary, in document order.
MonoAnchors(summary) ==
    SelectSeq(Descendants(kids, summary), LAMBDA n : tagName(n) = "A" /\ n \in TextMono)

\* The anchor's href is present and holds /files/ or /blob/.
FileHref(a) ==
    /\ HrefAttr[a] # <<>>
    /\ \/ Includes(HrefAttr[a], <<"/", "f", "i", "l", "e", "s", "/">>)
       \/ Includes(HrefAttr[a], <<"/", "b", "l", "o", "b", "/">>)

\* The one anchor a container can be located by: the first text-mono anchor
\* of its first summary (Null: there is none).
LocatingAnchor(d) ==
    LET In(summary) == IF summary = Null THEN Null ELSE First(MonoAnchors(summary))
    IN In(First(querySelectorAll(kids, d, "SUMMARY")))

\* The blocks the latest direct call of findReviewCommentBlocks returned.
BlocksReturned == last.found[1]

\* C22: findReviewCommentBlocks returns, for each details-collapsible of the
\* document, at most one block; it returns one exactly when the container's
\* first summary exists, that summary's first a.text-mono anchor exists, is
\* not marked processed and has an href holding /files/ or /blob/; the block's
\* anchor is that anchor and no later one; every block is of a container of
\* the document.
C22_OneBlockPerContainer ==
    last.op = "findReviewCommentBlocks" =>
        /\ \A d \in Range(querySelectorAll(kids, "doc", "DETAILS-COLLAPSIBLE")) :
             /\ Cardinality({i \in DOMAIN BlocksReturned : BlocksReturned[i].details = d}) <= 1
             /\ (\E i \in DOMAIN BlocksReturned : BlocksReturned[i].details = d)
                  <=> /\ LocatingAnchor(d) # Null
                      /\ LocatingAnchor(d) \notin ide
                      /\ FileHref(LocatingAnchor(d))
             /\ \A i \in DOMAIN BlocksReturned :
                  BlocksReturned[i].details = d => BlocksReturned[i].anchor = LocatingAnchor(d)
        /\ \A i \in DOMAIN BlocksReturned :
             BlocksReturned[i].details
                \in Range(querySelectorAll(kids, "doc", "DETAILS-COLLAPSIBLE"))

\* The call returned a block for the container whose summary holds two
\* anchors and none for the containers with no summary, with no text-mono
\* anchor, with an anchor that has no href before one that has, with an href
\* that is no file link, and with a marked anchor.
C22_Witness ==
    /\ last.op = "findReviewCommentBlocks"
    /\ "a1" \in ide
    /\ InBody(kids, "d2")
    /\ \E i \in DOMAIN BlocksReturned :
         BlocksReturned[i].details = "d2" /\ BlocksReturned[i].anchor = "a2"
    /\ \A i \in DOMAIN BlocksReturned :
         BlocksReturned[i].details \notin {"d1", "d7", "d8", "d9", "d4"}

\* C23: a round of injectButtons' loop for a block whose anchor text is blank
\* creates no button, leaves the document and the markers as they were, does
\* not throw, and the loop goes on to the next block the pass located.
C23_EmptyPathSkipped ==
    last.op \in IdeSteps \cup {"injectButtons"} =>
        \A i \in 1..Len(last.bcalls) :
            last.bcalls[i].pathEmpty =>
                /\ last.bcalls[i].inserted = 0
                /\ last.bcalls[i].docSame
                /\ ~last.bcalls[i].marks
                /\ last.bcalls[i].anchor \notin ide
                /\ CompanionsOf(last.bcalls[i].anchor) = {}
                /\ ~last.bcalls[i].threw
                /\ i < SumLen(last.found) => Len(last.bcalls) > i

\* A pass skipped the blank anchor a4 and then gave the next block, a1's,
\* its button.
C23_Witness ==
    /\ Len(last.bcalls) >= 2
    /\ last.bcalls[1].anchor = "a4" /\ last.bcalls[1].pathEmpty
    /\ last.bcalls[1].inserted = 0
    /\ last.bcalls[2].anchor = "a1" /\ last.bcalls[2].inserted = 1
    /\ "a1" \in ide /\ "a4" \notin ide

\* s with every occurrence of x left out.
Without(s, x) == SelectSeq(s, LAMBDA y : y # x)

\* In a child list that was before and is after, node stands directly after
\* ref, before ref's former next sibling or last when ref had none, and the
\* other children are those of before, in their order.
InsertedRightAfter(before, after, ref, node) ==
    /\ node \notin Range(before)
    /\ Len(after) = Len(before) + 1
    /\ Without(after, node) = before
    /\ \E i \in 1..Len(before) :
         /\ before[i] = ref
         /\ after[i] = ref
         /\ after[i + 1] = node
         /\ IF i < Len(before) THEN after[i + 2] = before[i + 1] ELSE Len(after) = i + 1

\* C24: a round of injectButtons' loop that inserts a button leaves it in the
\* child list of the anchor's parent directly after the anchor: before the
\* anchor's former next sibling when there was one, otherwise last; the
\* children the parent had are all still there, in the same order.
C24_ButtonRightAfterAnchor ==
    last.op \in IdeSteps \cup {"injectButtons"} =>
        \A i \in 1..Len(last.bcalls) :
            IF last.bcalls[i].inserted = 1
            THEN InsertedRightAfter(last.bcalls[i].before, last.bcalls[i].after,
                                    last.bcalls[i].anchor, last.bcalls[i].button)
            ELSE last.bcalls[i].after = last.bcalls[i].before

\* The button for a1 went between a1 and the span that followed it; in the
\* same pass a trailing anchor would get its button as last child.
C24_Witness ==
    \E i \in 1..Len(last.bcalls) :
        /\ last.bcalls[i].anchor = "a1"
        /\ last.bcalls[i].before = <<"a1", "n1">>
        /\ last.bcalls[i].after = <<"a1", last.bcalls[i].button, "n1">>

\* The button for an anchor that was its parent's last child was appended.
C24_WitnessLast ==
    \E i \in 1..Len(last.bcalls) :
        /\ last.bcalls[i].anchor = "a4"
        /\ last.bcalls[i].before = <<"a4">>
        /\ last.bcalls[i].after = <<"a4", last.bcalls[i].button>>

\* C25: a call of processRelativeTime that marks its element has made exactly
\* one insertion: the label stands in the child list of the element's
\* grandparent directly after the element's parent (before the parent's
\* former next sibling, or last), the grandparent's other children are as
\* they were, and the label is not among the children of the element's own
\* parent; a call that inserts nothing leaves the grandparent's children as
\* they were.
C25_LabelAfterParent ==
    last.op \in TimeSteps \cup {"processRelativeTime"} =>
        \A i \in 1..Len(last.tcalls) :
            /\ last.tcalls[i].inserted \in {0, 1}
            /\ (last.tcalls[i].marks /\ ~last.tcalls[i].marked) => last.tcalls[i].inserted = 1
            /\ IF last.tcalls[i].inserted = 1
               THEN /\ InsertedRightAfter(last.tcalls[i].before, last.tcalls[i].after,
                                          last.tcalls[i].parent, last.tcalls[i].span)
                    /\ last.tcalls[i].span \notin Range(last.tcalls[i].siblings)
               ELSE last.tcalls[i].after = last.tcalls[i].before

\* The label for t1 went into w1 between t1's parent p1 and x1.
C25_Witness ==
    \E i \in 1..Len(last.tcalls) :
        /\ last.tcalls[i].el = "t1"
        /\ last.tcalls[i].parent = "p1"
        /\ last.tcalls[i].before = <<"p1", "x1">>
        /\ last.tcalls[i].after = <<"p1", last.tcalls[i].span, "x1">>
        /\ last.tcalls[i].siblings = <<"t1", "t4">>

\* The label for an element whose parent was the last child was appended.
C25_WitnessLast ==
    \E i \in 1..Len(last.tcalls) :
        /\ last.tcalls[i].inserted = 1
        /\ last.tcalls[i].after = Append(last.tcalls[i].before, last.tcalls[i].span)

\* C26: a call of processRelativeTime on an unmarked element whose datetime
\* attribute is absent or empty inserts no label, sets no marker, logs
\* nothing, throws nothing and leaves the document as it was.
C26_NoDatetimeUnchanged ==
    last.op \in TimeSteps \cup {"processRelativeTime"} =>
        \A i \in 1..Len(last.tcalls) :
            (~last.tcalls[i].marked /\ ~last.tcalls[i].dated) =>
                /\ last.tcalls[i].inserted = 0
                /\ ~last.tcalls[i].marks
                /\ last.tcalls[i].docSame
                /\ last.tcalls[i].warns = 0 /\ last.tcalls[i].errors = 0
                /\ ~last.tcalls[i].threw
                /\ CompanionsOf(last.tcalls[i].el) = {}
                /\ last.tcalls[i].el \notin gh

\* The pass annotated t1 and then came to t4, which has no datetime.
C26_Witness ==
    /\ Len(last.tcalls) >= 2
    /\ last.tcalls[1].el = "t1" /\ last.tcalls[1].inserted = 1
    /\ last.tcalls[2].el = "t4"
    /\ ~last.tcalls[2].dated /\ ~last.tcalls[2].marked
    /\ last.tcalls[2].docSame

\* C27: a call of processRelativeTime on an element whose datetime attribute
\* is present but is no parseable instant inserts no label and sets no
\* marker.
C27_UnparseableSkipped ==
    last.op \in TimeSteps \cup {"processRelativeTime"} =>
        \A i \in 1..Len(last.tcalls) :
            (/\ ~last.tcalls[i].marked
             /\ last.tcalls[i].dated
             /\ DateParse(getDatetime(last.tcalls[i].el)).nan) =>
                /\ last.tcalls[i].inserted = 0
                /\ ~last.tcalls[i].marks

\* C28: a call of processRelativeTime on an element that carries the
\* processed marker does not read the datetime attribute, inserts nothing,
\* logs nothing, throws nothing and leaves the tree, the markers and the
\* labels as they were, however often it is repeated.
C28_MarkedIsNoOp ==
    last.op \in TimeSteps \cup {"processRelativeTime"} =>
        \A i \in 1..Len(last.tcalls) :
            last.tcalls[i].marked =>
                /\ last.tcalls[i].reads = 0
                /\ last.tcalls[i].inserted = 0
                /\ last.tcalls[i].docSame
                /\ last.tcalls[i].marks
                /\ last.tcalls[i].warns = 0 /\ last.tcalls[i].errors = 0
                /\ ~last.tcalls[i].threw

\* processRelativeTime was called again on t1, which an earlier call had
\* marked and given its one label.
C28_Witness ==
    /\ last.op = "processRelativeTime"
    /\ last.tcalls[1].el = "t1"
    /\ last.tcalls[1].marked
    /\ last.tcalls[1].dated
    /\ Cardinality(CompanionsOf("t1")) = 1

\* init() of a script has ended, however it ended.
Ended(pc) == pc \notin {"idle", "reading"}

\* Each script has called chrome.storage.sync.get once when its init has run
\* and never more; whatever has been saved since, the deep-link observer
\* holds the ideType the read delivered and the project of the page's path,
\* and the buttons a callback inserts are made from these.
ConfigAsRead ==
    /\ storage.getsT = (IF pcT = "idle" THEN 0 ELSE 1)
    /\ storage.getsI = (IF pcI = "idle" THEN 0 ELSE 1)
    /\ pcI = "watching" =>
         cfg = [ideType |-> settings.ideType, projectName |-> extractProjectName(pathname)]
    /\ last.op = "ideCallback" =>
         \A i \in 1..Len(last.bcalls) :
            last.bcalls[i].inserted = 1 =>
                url[last.bcalls[i].button]
                    = ExpectedUrl(Trim(text[last.bcalls[i].anchor]),
                                  ExpectedLine(last.bcalls[i].details),
                                  settings.ideType,
                                  extractProjectName(pathname))

\* Once a script's init has ended, no step (a save of settings least of all)
\* changes how it ended, its observers, the values its read delivered or the
\* configuration its observer holds.
ConfigStays ==
    /\ Ended(pcT) =>
         /\ pcT' = pcT /\ obsT' = obsT
         /\ settings'.enableAbsoluteTime = settings.enableAbsoluteTime
         /\ storage'.getsT = storage.getsT
    /\ Ended(pcI) =>
         /\ pcI' = pcI /\ obsI' = obsI /\ cfg' = cfg
         /\ settings'.enableIDEDeepLink = settings.enableIDEDeepLink
         /\ settings'.ideType = settings.ideType
         /\ storage'.getsI = storage.getsI

\* C29: each script reads its configuration exactly once, at init; a save of
\* settings after init has ended changes neither script's state nor its
\* observers, and the buttons later callbacks insert carry the ideType and
\* the project captured at init.
C29_ConfigReadOnce == []ConfigAsRead /\ [][ConfigStays]_vars

\* After both flags were saved as off together with another ideType, both
\* observers are still registered and a deep-link callback has inserted a
\* button.
C29_Witness ==
    /\ storage.saved # <<>>
    /\ storage.saved[1].ideType # settings.ideType
    /\ ~storage.saved[1].enableIDEDeepLink /\ ~storage.saved[1].enableAbsoluteTime
    /\ pcT = "watching" /\ obsT = 1
    /\ pcI = "watching" /\ obsI = 1
    /\ last.op = "ideCallback"
    /\ \E i \in 1..Len(last.bcalls) : last.bcalls[i].inserted = 1

\* Both ancestors processRelativeTime needs are there now.
HasAncestors(t) ==
    /\ parentNode(kids, t) # Null
    /\ parentNode(kids, parentNode(kids, t)) # Null

\* C30 as stated: after any delivered batch, every candidate an earlier call
\* left unprocessed and whose precondition holds by now (both ancestors for a
\* timestamp element, non-blank text for an anchor) is annotated.
C30_AnnotatedByNextBatch ==
    /\ last.op = "timeCallback" =>
         \A t \in missed \cap TimeElements : HasAncestors(t) => t \in gh
    /\ last.op = "ideCallback" =>
         \A a \in missed \cap Anchors : Trim(text[a]) # <<>> => a \in ide

\* C30: a candidate a call has left unprocessed is not marked as long as it
\* has no companion, so it stays eligible.  It is annotated by a later call
\* that finds its precondition met: a timestamp element by the absolute-time
\* callback whose batch reports an added subtree that holds it, an anchor by
\* an injectButtons rescan that comes to its block.  A deep-link batch that
\* adds no element that is or contains a details-collapsible (the batch that
\* reports the anchor's new text is one) runs no rescan.
C30_EligibleUntilCovered ==
    /\ \A c \in missed : c \in gh \cup ide => CompanionsOf(c) # {}
    /\ last.op = "timeCallback" =>
         /\ \A t \in missed \cap TimeScope :
              \E i \in 1..Len(last.tcalls) : last.tcalls[i].el = t
         /\ \A i \in 1..Len(last.tcalls) :
              (last.tcalls[i].el \in missed /\ Eligible(last.tcalls[i])) =>
                  /\ last.tcalls[i].inserted = 1
                  /\ last.tcalls[i].el \in gh
    /\ last.op \in IdeSteps =>
         \A i \in 1..Len(last.bcalls) :
            (/\ last.bcalls[i].anchor \in missed
             /\ ~last.bcalls[i].marked
             /\ ~last.bcalls[i].pathEmpty
             /\ ~last.bcalls[i].badText) =>
                /\ last.bcalls[i].inserted = 1
                /\ last.bcalls[i].anchor \in ide
    /\ (/\ last.op = "ideCallback"
        /\ ~\E m \in 1..Len(last.batch) : \E j \in 1..Len(last.batch[m]) :
               Triggers(kids, last.batch[m][j])) =>
         /\ last.found = <<>>
         /\ last.bcalls = <<>>

\* The anchor that was blank when init's pass skipped it has text now, and
\* the rescan a later batch set off has given it its button.
C30_Witness ==
    /\ last.op = "ideCallback"
    /\ "a4" \in missed
    /\ \E i \in 1..Len(last.bcalls) :
         last.bcalls[i].anchor = "a4" /\ last.bcalls[i].inserted = 1
    /\ "a4" \in ide

\* The batch that reported the anchor's new text set off no rescan: the
\* anchor has text, no marker and no button.
C30_WitnessTextBatch ==
    /\ last.op = "ideCallback"
    /\ last.batch = <<<<"ty">>>>
    /\ "a4" \in missed
    /\ Trim(text["a4"]) # <<>>
    /\ "a4" \notin ide
    /\ CompanionsOf("a4") = {}

\* A timestamp element that a callback found outside the tree, and warned
\* about, was annotated by the callback for the batch that reported its
\* fragment's return.
C30_WitnessTime ==
    /\ last.op = "timeCallback"
    /\ \E i \in 1..Len(last.tcalls) :
         /\ last.tcalls[i].el \in missed
         /\ last.tcalls[i].inserted = 1

\* C36: in every injectButtons pass the blocks findReviewCommentBlocks
\* returned have pairwise distinct anchors, and a step that ran one pass
\* inserted at most one button per anchor.
C36_DistinctAnchorsPerPass ==
    last.op \in IdeSteps \cup {"injectButtons"} =>
        /\ \A k \in 1..Len(last.found) :
             \A i, j \in 1..Len(last.found[k]) :
                i # j => last.found[k][i].anchor # last.found[k][j].anchor
        /\ Len(last.found) = 1 =>
             \A a \in Anchors :
                Cardinality({i \in 1..Len(last.bcalls) :
                                /\ last.bcalls[i].anchor = a
                                /\ last.bcalls[i].inserted = 1}) <= 1

\* What formatDateTime returned, from "UTC" on.
SuffixReturned ==
    SubSeq(call.ret, FirstIndex(call.ret, "U"), Len(call.ret))

\* The whole hours in a magnitude of m minutes: the h with 60h <= m < 60(h+1).
WholeHours(m) == CHOOSE h \in 0..m : h * 60 <= m /\ m < (h + 1) * 60

CompanionsGone(c) ==
    /\ CompanionsOf(c) # {}
    /\ \A k \in CompanionsOf(c) : Detached(k)

\* The step is a pass that came to candidate c and in which nothing failed:
\* a call of processRelativeTime on c, or an injectButtons pass with a block
\* for c, the anchor's text being a usable path.
PassCovers(c) ==
    \/ /\ last'.op = "processRelativeTime"
       /\ \E i \in 1..Len(last'.tcalls) :
            /\ last'.tcalls[i].el = c
            /\ last'.tcalls[i].dated /\ last'.tcalls[i].hasGrand
            /\ ~last'.tcalls[i].createThrows /\ ~last'.tcalls[i].insertThrows
    \/ /\ last'.op = "injectButtons"
       /\ ~last'.threw
       /\ \E i \in 1..Len(last'.bcalls) :
            /\ last'.bcalls[i].anchor = c
            /\ ~last'.bcalls[i].pathEmpty /\ ~last'.bcalls[i].badText

ReannotatedIffStripped ==
    \A c \in TimeElements \cup Anchors :
        /\ (CompanionsGone(c) /\ c \notin gh \cup ide /\ PassCovers(c)) =>
              /\ Cardinality(CompanionsOf(c)' \ CompanionsOf(c)) = 1
              /\ c \in gh' \cup ide'
        /\ (CompanionsGone(c) /\ c \in gh \cup ide /\ c \in gh' \cup ide') =>
              CompanionsOf(c)' = CompanionsOf(c)

\* C31: when the host has removed a candidate's companions and its marker,
\* the next pass that comes to the candidate inserts exactly one new
\* companion and marks the candidate again; when the host has removed the
\* companions and left the marker, no step inserts a companion for it.
C31_ReannotatedIffStripped == [][ReannotatedIffStripped]_vars

\* Every node the delivered batch reports as added is a label or a button
\* the scripts inserted.
OwnBatch(batch) ==
    /\ batch # <<>>
    /\ \A m \in 1..Len(batch) : \A j \in 1..Len(batch[m]) : batch[m][j] \in Companions

\* A callback for such a batch locates nothing, inserts nothing, marks
\* nothing and queues nothing.
OwnBatchInert ==
    (last'.op \in {"timeCallback", "ideCallback"} /\ OwnBatch(last'.batch)) =>
        /\ kids' = kids /\ nl' = nl /\ nb' = nb /\ owner' = owner
        /\ gh' = gh /\ ide' = ide
        /\ last'.tcalls = <<>> /\ last'.bcalls = <<>> /\ last'.found = <<>>
        /\ last'.op = "timeCallback" => qT' = <<>> /\ qI' = qI
        /\ last'.op = "ideCallback" => qI' = <<>> /\ qT' = qT

\* C35: a callback whose batch reports only the scripts' own labels and
\* buttons inserts nothing and changes no marker; the queues of both
\* observers end up empty for good and from some point on no companion is
\* inserted.
C35_NoFeedback ==
    /\ [][OwnBatchInert]_vars
    /\ <>[](qT = <<>> /\ qI = <<>>)
    /\ <>[][nl' = nl /\ nb' = nb]_vars

\* The deep-link observer was called back with the label the other script
\* had inserted, while an anchor with text and no marker stood in the
\* document: nothing was inserted.
C35_Witness ==
    /\ last.op = "ideCallback"
    /\ OwnBatch(last.batch)
    /\ \E m \in 1..Len(last.batch) : last.batch[m][1] \in LabelIds
    /\ Trim(text["a4"]) # <<>>
    /\ "a4" \notin ide
    /\ CompanionsOf("a4") = {}

\* The absolute-time observer was called back with a button the deep-link
\* script had inserted.
C35_WitnessButton ==
    /\ last.op = "timeCallback"
    /\ OwnBatch(last.batch)
    /\ \E m \in 1..Len(last.batch) : last.batch[m][1] \in ButtonIds
    /\ nl > 0

\* C34: whatever showStatus calls have been made, at most one hide timer is
\* pending and it is the one statusTimeout names; and a timer that fires, and
\* so hides the status message, is the timer the most recent showStatus call
\* started, never one started by an earlier call.
LatestTimerHides ==
    (act'.op = "timer" /\ timers' # timers) =>
        /\ act'.timer = statusTimeout
        /\ act'.timer = statusMessage.timer
        /\ ~statusMessage'.show

C34_OneHideTimer ==
    /\ [](Cardinality(timers) <= 1 /\ timers \subseteq {statusTimeout})
    /\ [][LatestTimerHides]_vars

\* A second showStatus call came while the first call's timer was pending, and
\* the message it showed has been hidden by its own timer.
C34_Witness ==
    /\ act.op = "timer"
    /\ act.timer = 2
    /\ statusMessage.cleared = 1
    /\ ~statusMessage.show
    /\ timers = {}

\* C33: a write made by saveSettings(partial) leaves the stored value of every
\* key that is not in partial as it was (the toggle's write does not change
\* customDomains, a domain update's write does not change enableAbsoluteTime),
\* and when a toggle and an addDomain have overlapped or followed each other
\* and both have written successfully, storage holds the toggle's value and
\* the added domain. A key that was never stored counts with its default.
Stored(S) == StorageGet(S, DefaultSettings)

OtherKeysPreserved ==
    (act'.op = "saveWrite" /\ act'.ok) =>
        IF tasks[act'.task].kind = "toggle"
        THEN Stored(sync').customDomains = Stored(sync).customDomains
        ELSE Stored(sync').enableAbsoluteTime = Stored(sync).enableAbsoluteTime

BothUpdatesStored ==
    \A i, j \in 1..Len(tasks) :
        (/\ Idle
         /\ tasks[i].kind = "toggle" /\ tasks[i].saved
         /\ tasks[j].kind = "add" /\ tasks[j].saved)
        => /\ Stored(sync).enableAbsoluteTime = tasks[i].partial[1]
           /\ ArrayIncludes(Stored(sync).customDomains, tasks[j].domain)

C33_PartialSavePreservesKeys == []BothUpdatesStored /\ [][OtherKeysPreserved]_vars

\* C39: when removeDomain, called by the Remove button of an item, writes to
\* storage successfully, the stored list after the write is the stored list
\* before it without the domain that item displayed: that domain is gone and
\* no other entry has been removed, added or moved.
ListWithout(domains, domain) == SelectSeq(domains, LAMBDA d : d # domain)

RemovesShownDomain ==
    (act'.op = "saveWrite" /\ act'.ok /\ tasks[act'.task].kind = "remove") =>
        Stored(sync').customDomains =
            ListWithout(Stored(sync).customDomains, tasks[act'.task].shown)

C39_RemovesShownDomain == [][RemovesShownDomain]_vars

\* C38: when an addDomain or removeDomain call that got as far as
\* saveSettings' write has completed, with no other operation under way, the
\* rendered list equals the stored customDomains list, whether the write
\* succeeded or failed.
WroteAndCompleted(k) ==
    /\ tasks[k].kind \in {"add", "remove"}
    /\ tasks[k].pc = "done"
    /\ tasks[k].newSettings # <<>>

C38_RenderedEqualsStored ==
    (Idle /\ act.task >= 1 /\ WroteAndCompleted(act.task)) =>
        customDomainsList = Stored(sync).customDomains

\* C37: with one operation at a time, the stored customDomains list never
\* holds a domain twice, every entry is trimmed, lower-case and accepted by
\* isValidDomain, and no step of an addDomain call whose input is empty,
\* invalid or already in the stored list changes the stored list.
NoDuplicates(domains) ==
    \A i, j \in 1..Len(domains) : domains[i] = domains[j] => i = j

Normalised(domain) ==
    /\ Trim(domain) = domain
    /\ toLowerCase(domain) = domain
    /\ isValidDomain(domain)

StoredListClean ==
    /\ NoDuplicates(Stored(sync).customDomains)
    /\ \A i \in 1..Len(Stored(sync).customDomains) : Normalised(Stored(sync).customDomains[i])

Rejectable(domain) ==
    \/ domain = <<>>
    \/ ~isValidDomain(domain)
    \/ ArrayIncludes(Stored(sync).customDomains, domain)

RejectedAddChangesNothing ==
    (/\ act'.task >= 1
     /\ act'.op # "timer"
     /\ tasks'[act'.task].kind = "add"
     /\ Rejectable(tasks'[act'.task].domain))
    => Stored(sync').customDomains = Stored(sync).customDomains

C37_StoredListClean == []StoredListClean /\ [][RejectedAddChangesNothing]_vars

====
